---- MODULE Spec2Model ----
(***************************************************************************)
(* Tile data serving and elevation query engine of tileserver-gl           *)
(* (serve_data.js, utils.js): the source registry filled by                *)
(* serve_data.add, the tile route, and the elevation routes.               *)
(***************************************************************************)
EXTENDS Integers, Sequences, FiniteSets, TLC

VARIABLES
    options,    \* global options of the configuration (sparse, pbfAlias, dataDecoratorFunc)
    data,       \* the configuration's data section: id -> params of the data source
    files,      \* the tile containers on disk: id -> metadata, stored tiles, headers
    isLight,    \* the build: serve_light.js stands in for serve_rendered.js
    repo,       \* the registry serve_data.add fills: id -> item, or NoItem
    req,        \* the request being handled
    pc,         \* where its handler is: idle, fetch, decode, done, hung
    res,        \* the response sent for it
    fetchLog,   \* the fetchTileData calls made for it, in order, with their outcome
    groups,     \* getBatchElevations: the tile groups, in Map insertion order
    results,    \* getBatchElevations: the results array
    server      \* server.js: the process around the app (generations, startup, watcher)

vars == <<options, data, files, isLight, repo, req, pc, res, fetchLog, groups, results, server>>
\* what no handler writes: the configuration, the containers, the build and
\* the process
env == <<options, data, files, isLight, server>>
\* what no step of server.js outside the routes writes
routes == <<options, data, files, isLight, repo, req, pc, res, fetchLog, groups, results>>

(***************************************************************************)
(* JavaScript values.  A number that may be NaN or undefined is an integer *)
(* or one of two values outside every range the model uses; a string or a  *)
(* boolean option that may be undefined is a string.                       *)
(***************************************************************************)
Undef == "undefined"
NaN == -1000000001
UndefNum == -1000000002
Null == -1000000003
NoItem == [registered |-> FALSE]
NoReq == [kind |-> "none"]
NoRes == [status |-> 0, body |-> "none"]
NoServer == [kind |-> "none"]

IsNum(a) == a # NaN /\ a # UndefNum

\* A JavaScript object is a record over all the keys the model reads; a key the
\* object does not have holds undefined.
NumKeys == {"minzoom", "maxzoom", "tileSize"}
Absent(k, v) == IF k \in NumKeys THEN v = UndefNum ELSE v = Undef

\* Object.assign(target, source): the source's own keys overwrite the target's
ObjectAssign(target, source) ==
    [k \in DOMAIN target |->
        IF k \in DOMAIN source /\ ~Absent(k, source[k]) THEN source[k] ELSE target[k]]

\* a ?? b
Nullish(a, b) == IF a = Undef THEN b ELSE a

\* relational operators on JavaScript numbers: false whenever an operand is
\* NaN or undefined
Lt(a, b) == IsNum(a) /\ IsNum(b) /\ a < b
Gt(a, b) == IsNum(a) /\ IsNum(b) /\ a > b
Ge(a, b) == IsNum(a) /\ IsNum(b) /\ a >= b

\* Math.pow(2, z).  For z < 0 the value lies in (0, 1); it is only ever
\* compared with integers, and an integer is >= 2^z exactly when it is >= 1.
RECURSIVE Pow2(_)
Pow2(z) == IF z <= 0 THEN 1 ELSE 2 * Pow2(z - 1)

(***************************************************************************)
(* Bounds of the model                                                     *)
(***************************************************************************)
\* deepest zoom a container of the model declares or stores
MaxZoom == 2
\* most points in one batch elevation query
MaxPoints == 3

Zooms == 0..MaxZoom
Addresses == UNION {{<<z, x, y>> : x \in 0..(Pow2(z) - 1), y \in 0..(Pow2(z) - 1)} : z \in Zooms}

(***************************************************************************)
(* Configuration and containers                                            *)
(***************************************************************************)
DataIds == {"terrain"}
TriState == {Undef, "true", "false"}
Formats == {"pbf", "png", "webp"}
SourceTypes == {"mbtiles", "pmtiles"}
Encodings == {Undef, "mapbox", "terrarium", "other"}

\* options.dataDecoratorFunc is an external function; the model has three
\* behaviours of it on a tilejson: none configured, one that returns the
\* tilejson as it is, one that rewrites its format
Decorators == {Undef, "keep", "toPng"}

\* the metadata a container reports (getPMtilesInfo, MBTiles getInfo)
Infos(fs, zs) ==
    {[format |-> f, minzoom |-> a, maxzoom |-> b] : f \in fs, a \in zs, b \in zs}

\* params of one data source of the configuration
Params(kinds, sparses, encs, sizes, overrides) ==
    {[kind |-> k, sparse |-> s, encoding |-> e, tileSize |-> t, tilejson |-> o] :
        k \in kinds, s \in sparses, e \in encs, t \in sizes, o \in overrides}

\* params.tilejson: the keys of the tilejson the configuration overrides
NoOverride == [format |-> Undef]
TileJSONOverrides == {NoOverride, [format |-> "png"], [format |-> "pbf"]}

\* a container file: whether fsp.stat finds a non-empty file, its metadata, the
\* addresses it stores a tile for, whether the stored tiles are gzip-compressed,
\* and whether it returns an ETag header with a tile
Files(oks, infos, stores, gzs, etags) ==
    {[ok |-> v, info |-> i, tiles |-> t, gz |-> g, etag |-> e] :
        v \in oks, i \in infos, t \in stores, g \in gzs, e \in etags}

(***************************************************************************)
(* serve_data.add                                                          *)
(***************************************************************************)
\* options.dataDecoratorFunc(id, 'tilejson', tileJSON)
DecorateTileJSON(decorator, tileJSON) ==
    IF decorator = "toPng" THEN [tileJSON EXCEPT !.format = "png"] ELSE tileJSON

\* The tilejson add builds: format 'pbf' and the params' encoding and tileSize,
\* overwritten by the container's metadata, then by params.tilejson, then
\* handed to the decorator.
BuildTileJSON(opts, params, info) ==
    LET initial == [format |-> "pbf", encoding |-> params.encoding,
                    tileSize |-> params.tileSize,
                    minzoom |-> UndefNum, maxzoom |-> UndefNum]
        merged == ObjectAssign(ObjectAssign(initial, info), params.tilejson)
    IN  IF opts.dataDecoratorFunc # Undef
        THEN DecorateTileJSON(opts.dataDecoratorFunc, merged)
        ELSE merged

\* the global option consulted before the source's own
ResolveSparseGlobalFirst(opts, params, tileJSON) ==
    LET isVector == tileJSON.format = "pbf"
        chosen == Nullish(Nullish(opts.sparse, params.sparse),
                          IF isVector THEN "false" ELSE "true")
    IN  chosen = "true"

\* const sparse = params.sparse ?? options.sparse ?? !isVector
ResolveSparse(opts, params, tileJSON) ==
    LET isVector == tileJSON.format = "pbf"
        chosen == Nullish(Nullish(params.sparse, opts.sparse),
                          IF isVector THEN "false" ELSE "true")
    IN  chosen = "true"

\* the item add stores in the registry
NewItem(opts, params, file, id) ==
    LET tileJSON == BuildTileJSON(opts, params, file.info)
    IN  [registered |-> TRUE,
         tileJSON   |-> tileJSON,
         source     |-> id,
         sourceType |-> params.kind,
         sparse     |-> ResolveSparse(opts, params, tileJSON)]

\* serve_data.add(options, repo, params, id): throws, leaving the registry as it
\* is, when fsp.stat finds no file or an empty one
Add(id) ==
    /\ pc = "idle"
    /\ ~repo[id].registered
    /\ repo' = [repo EXCEPT ![id] =
                   IF files[id].ok THEN NewItem(options, data[id], files[id], id)
                   ELSE repo[id]]
    /\ UNCHANGED <<env, req, pc, res, fetchLog, groups, results>>

(***************************************************************************)
(* fetchTileData (utils.js)                                                *)
(***************************************************************************)
\* What the container does with a lookup of (z, x, y): it finds the tile, finds
\* there is none, or fails to read (I/O error, timeout).
ContainerLookup(file, z, x, y, io) ==
    IF io = "ioerror" THEN "ioerror"
    ELSE IF IsNum(z) /\ IsNum(x) /\ IsNum(y) /\ <<z, x, y>> \in file.tiles THEN "tile"
    ELSE "missing"

\* The ways the promise of fetchTileData can settle.  pmtiles: the awaited
\* getPMtilesTile sits in an async promise executor; when it rejects neither
\* resolve nor reject is ever called, and when it swallows the failure and
\* returns no data the promise resolves null.  mbtiles: every err of the
\* getTile callback resolves null.  Any other sourceType returns undefined.
FetchTileData(sourceType, lookup) ==
    IF sourceType = "pmtiles"
    THEN CASE lookup = "ioerror" -> {"never", "null"}
           [] lookup = "missing" -> {"null"}
           [] OTHER -> {"data"}
    ELSE IF sourceType = "mbtiles"
    THEN IF lookup = "tile" THEN {"data"} ELSE {"null"}
    ELSE {"null"}

\* The bytes and headers a container returns for a stored tile.  The bytes
\* are described by what they encode, the tile they are of, how many gzip
\* framings wrap them and who produced them; calls and parsed record what the
\* decoration hook was called with and what the vector-tile parser was given.
NoPayload == [content |-> "none", addr |-> <<0, 0, 0>>, gzip |-> 0, by |-> "none",
              calls |-> <<>>, parsed |-> <<>>]
StoredTile(item, file, z, x, y) ==
    [data    |-> [content |-> item.tileJSON.format, addr |-> <<z, x, y>>,
                  gzip |-> IF file.gz THEN 1 ELSE 0, by |-> "container",
                  calls |-> <<>>, parsed |-> <<>>],
     headers |-> IF file.etag THEN {<<"ETag", "container">>} ELSE {}]

LogEntry(z, x, y, lookup) == [z |-> z, x |-> x, y |-> y, outcome |-> lookup]

(***************************************************************************)
(* GET /:id/:z/:x/:y.:format                                               *)
(***************************************************************************)
Response(status, body) ==
    [status |-> status, body |-> body, headers |-> {}, payload |-> NoPayload]

\* format check of the route, on the requested format after the alias mapping
FormatOk(format, tileJSONFormat) ==
    ~(format # tileJSONFormat /\ ~(format = "geojson" /\ tileJSONFormat = "pbf"))

\* x and y compared with > 2^z
OutOfBoundsInclusive(tileJSON, z, x, y) ==
    \/ Lt(z, tileJSON.minzoom)
    \/ Lt(x, 0)
    \/ Lt(y, 0)
    \/ Gt(z, tileJSON.maxzoom)
    \/ Gt(x, Pow2(z))
    \/ Gt(y, Pow2(z))

\* bounds check of the route
OutOfBounds(tileJSON, z, x, y) ==
    \/ Lt(z, tileJSON.minzoom)
    \/ Lt(x, 0)
    \/ Lt(y, 0)
    \/ Gt(z, tileJSON.maxzoom)
    \/ Ge(x, Pow2(z))
    \/ Ge(y, Pow2(z))

\* if (format === options.pbfAlias) format = 'pbf'
AliasFormat(opts, format) == IF format = opts.pbfAlias THEN "pbf" ELSE format

\* the bounds checked before the format
TileValidationBoundsFirst(opts, item, r) ==
    IF ~item.registered THEN Response(404, "Not Found")
    ELSE IF r.z = NaN \/ r.x = NaN \/ r.y = NaN THEN Response(404, "Invalid Tile")
    ELSE IF OutOfBounds(item.tileJSON, r.z, r.x, r.y) THEN Response(404, "Out of bounds")
    ELSE IF ~FormatOk(AliasFormat(opts, r.format), item.tileJSON.format)
         THEN Response(404, "Invalid format")
    ELSE Response(0, "fetch")

\* The checks of the route up to the fetch: the response of the first check
\* that fails, or "fetch" when all pass.
TileValidation(opts, item, r) ==
    IF ~item.registered THEN Response(404, "Not Found")
    ELSE IF r.z = NaN \/ r.x = NaN \/ r.y = NaN THEN Response(404, "Invalid Tile")
    ELSE IF ~FormatOk(AliasFormat(opts, r.format), item.tileJSON.format)
         THEN Response(404, "Invalid format")
    ELSE IF OutOfBounds(item.tileJSON, r.z, r.x, r.y) THEN Response(404, "Out of bounds")
    ELSE Response(0, "fetch")

Lookup(id) == IF id \in DataIds THEN repo[id] ELSE NoItem

\* the handler up to its first await
TileRequest(id, z, x, y, format) ==
    /\ pc = "idle"
    /\ LET r == [kind |-> "tile", id |-> id, z |-> z, x |-> x, y |-> y, format |-> format]
           v == TileValidation(options, Lookup(id), r)
       IN  /\ req' = r
           /\ IF v.body = "fetch"
              THEN pc' = "fetch" /\ res' = NoRes
              ELSE pc' = "done" /\ res' = v
    /\ fetchLog' = <<>>
    /\ groups' = <<>>
    /\ results' = <<>>
    /\ UNCHANGED <<env, repo>>

\* gunzipP / gzipP: one gzip framing less / more
Gunzip(d) == [d EXCEPT !.gzip = d.gzip - 1]
Gzip(d) == [d EXCEPT !.gzip = d.gzip + 1]
\* no tile taken for compressed
IsGzippedNever(d) == FALSE
\* data.slice(0, 2) is the gzip magic
IsGzipped(d) == d.gzip > 0

\* the hook called a second time on what it returned
DecorateDataTwice(r, d) ==
    [d EXCEPT !.by = "hook",
              !.calls = @ \o << [id |-> r.id, kind |-> "data", z |-> r.z, x |-> r.x,
                                 y |-> r.y, gzip |-> d.gzip],
                               [id |-> r.id, kind |-> "data", z |-> r.z, x |-> r.x,
                                 y |-> r.y, gzip |-> d.gzip] >>]
\* options.dataDecoratorFunc(id, 'data', data, z, x, y): the call is recorded
\* with the state of the bytes it was given, and what it returns is the data
DecorateData(r, d) ==
    [d EXCEPT !.by = "hook",
              !.calls = Append(@, [id |-> r.id, kind |-> "data", z |-> r.z, x |-> r.x,
                                   y |-> r.y, gzip |-> d.gzip])]

\* new VectorTile(new Pbf(data)) and JSON.stringify of its features
ToGeoJSON(d) == [d EXCEPT !.content = "geojson", !.parsed = Append(@, d.gzip)]

\* the container's headers sent as they came
TilePipelineKeepETag(opts, item, r, tile) ==
    LET format == AliasFormat(opts, r.format)
        d1 == IF IsGzipped(tile.data) THEN Gunzip(tile.data) ELSE tile.data
        d2 == IF item.tileJSON.format = "pbf" /\ opts.dataDecoratorFunc # Undef
              THEN DecorateData(r, d1) ELSE d1
        d3 == IF format = "geojson" THEN ToGeoJSON(d2) ELSE d2
        h1 == IF format = "pbf" THEN tile.headers \cup {<<"Content-Type", "application/x-protobuf">>}
              ELSE IF format = "geojson" THEN tile.headers \cup {<<"Content-Type", "application/json">>}
              ELSE tile.headers
        h2 == h1 \cup {<<"Content-Encoding", "gzip">>}
    IN  [status |-> 200, body |-> "tile", headers |-> h2, payload |-> Gzip(d3)]

\* the handler after a tile was fetched: decompress, decorate, transcode,
\* drop the ETag, compress
TilePipeline(opts, item, r, tile) ==
    LET format == AliasFormat(opts, r.format)
        d1 == IF IsGzipped(tile.data) THEN Gunzip(tile.data) ELSE tile.data
        d2 == IF item.tileJSON.format = "pbf" /\ opts.dataDecoratorFunc # Undef
              THEN DecorateData(r, d1) ELSE d1
        d3 == IF format = "geojson" THEN ToGeoJSON(d2) ELSE d2
        h1 == IF format = "pbf" THEN tile.headers \cup {<<"Content-Type", "application/x-protobuf">>}
              ELSE IF format = "geojson" THEN tile.headers \cup {<<"Content-Type", "application/json">>}
              ELSE tile.headers
        h2 == {h \in h1 : h[1] # "ETag"} \cup {<<"Content-Encoding", "gzip">>}
    IN  [status |-> 200, body |-> "tile", headers |-> h2, payload |-> Gzip(d3)]

\* every absent tile answered as empty
AbsentStatusAlwaysEmpty(item) == 204

\* status the route answers an absent tile with
AbsentStatus(item) == IF item.sparse THEN 404 ELSE 204

\* the handler from the settling of fetchTileData to the response
TileFetched(io) ==
    /\ pc = "fetch"
    /\ req.kind = "tile"
    /\ LET item == repo[req.id]
           file == files[item.source]
           lookup == ContainerLookup(file, req.z, req.x, req.y, io)
       IN  /\ fetchLog' = Append(fetchLog, LogEntry(req.z, req.x, req.y, lookup))
           /\ \E fetched \in FetchTileData(item.sourceType, lookup) :
                  CASE fetched = "never" -> pc' = "hung" /\ res' = NoRes
                    [] fetched = "null" -> pc' = "done" /\ res' = Response(AbsentStatus(item), "")
                    [] OTHER -> /\ pc' = "done"
                                /\ res' = TilePipeline(options, item, req,
                                              StoredTile(item, file, req.z, req.x, req.y))
    /\ UNCHANGED <<env, repo, req, groups, results>>

(***************************************************************************)
(* Coordinates.  A longitude or latitude is a whole number of millidegrees. *)
(***************************************************************************)
\* Web Mercator y of a latitude, as a fraction of the world's height in units
\* of 2^-16, for the latitudes the model uses:
\* 0.5 - ln((1 + sin lat) / (1 - sin lat)) / (4 pi)
MercatorTable ==
    { <<-82111, 60662>>, <<-75782, 54481>>, <<-72842, 52496>>, <<-53747, 44415>>,
      <<-45500, 42090>>, <<-42526, 41337>>, <<-33257, 39194>>, <<-20490, 36580>>,
      <<-1000, 32950>>, <<-500, 32859>>, <<0, 32768>>, <<500, 32677>>,
      <<1000, 32586>>, <<2000, 32404>>, <<10000, 30938>>,
      <<20490, 28956>>, <<30000, 27039>>, <<33257, 26342>>, <<42526, 24199>>,
      <<45500, 23446>>, <<53747, 21121>>, <<72842, 13040>>, <<75782, 11055>>,
      <<82111, 4874>> }
MercatorY16(lat) == (CHOOSE e \in MercatorTable : e[1] = lat)[2]

\* lonLatToTilePixel(lon, lat, zoom, tileSize): the tile of the zoom's grid
\* that contains the point and the pixel of the point within it, rounded
\* down.  NaN in, NaN out.
LonLatToTilePixel(lon, lat, zoom, tileSize) ==
    IF lon = NaN \/ lat = NaN \/ zoom = NaN
    THEN [tileX |-> NaN, tileY |-> NaN, pixelX |-> NaN, pixelY |-> NaN]
    ELSE LET scale == Pow2(zoom)
             wx == (lon + 180000) * scale
             wy == MercatorY16(lat) * scale
         IN  [tileX  |-> wx \div 360000,
              tileY  |-> wy \div 65536,
              pixelX |-> ((wx % 360000) * tileSize) \div 360000,
              pixelY |-> ((wy % 65536) * tileSize) \div 65536]

\* mean of the south and north latitude of SphericalMercator.bbox(x, y, z), for
\* the rows of the zooms the model uses
TileMidLatTable ==
    { <<0, 0, 0>>, <<1, 0, 42526>>, <<1, 1, -42526>>,
      <<2, 0, 75782>>, <<2, 1, 33257>>, <<2, 2, -33257>>, <<2, 3, -75782>>,
      <<3, 0, 82111>>, <<3, 1, 72842>>, <<3, 2, 53747>>, <<3, 3, 20490>>,
      <<3, 4, -20490>>, <<3, 5, -53747>>, <<3, 6, -72842>>, <<3, 7, -82111>> }

\* lon = (bbox[0] + bbox[2]) / 2 and lat = (bbox[1] + bbox[3]) / 2 of the tile's
\* bounding box; NaN when the zoom is NaN
TileMidpoint(x, y, z) ==
    IF z = NaN THEN [lon |-> NaN, lat |-> NaN]
    ELSE [lon |-> ((2 * x + 1) * 180000) \div Pow2(z) - 180000,
          lat |-> (CHOOSE e \in TileMidLatTable : e[1] = z /\ e[2] = y)[3]]

(***************************************************************************)
(* Terrain tiles                                                           *)
(***************************************************************************)
\* The R, G, B samples of the stored terrain tile at a pixel: the model's
\* tiles differ from each other and from pixel to pixel.
PixelRGB(addr, px, py) == <<addr[1] * 64 + addr[2] * 8 + addr[3], py % 256, px % 256>>

\* elevation of a sample, as the whole number of units it stands for: mapbox
\* in tenths of a metre, terrarium in 1/256 m (MapboxDouble has the rounding
\* of the double arithmetic)
DecodeElevation(encoding, rgb) ==
    IF encoding = "mapbox"
    THEN (rgb[1] * 65536 + rgb[2] * 256 + rgb[3]) - 100000
    ELSE (rgb[1] * 256 + rgb[2]) * 256 + rgb[3] - 32768 * 256

\* serve_rendered.getBatchElevationsFromTile(data, param, pixels): one
\* {index, elevation} per pixel; the light build answers null for each
GetBatchElevationsFromTile(light, tileData, encoding, pixels) ==
    [k \in 1..Len(pixels) |->
        [index |-> pixels[k].index,
         elevation |-> IF light THEN Null
                       ELSE DecodeElevation(encoding,
                                PixelRGB(tileData.addr, pixels[k].pixelX, pixels[k].pixelY))]]

(***************************************************************************)
(* Mapbox decoding in double arithmetic.  An elevation is a whole number   *)
(* of decimetres.                                                          *)
(***************************************************************************)
\* elevationToMapboxRGB(elevation) of the fixture: value = Math.round((elevation
\* + 10000) / 0.1), split into bytes.  The sum and the quotient are off by far
\* less than one half, which Math.round removes.
ElevationToMapboxRGB(dm) ==
    LET value == dm + 100000
    IN  <<value \div 65536, (value % 65536) \div 256, value % 256>>

\* exponent of the double n / 10: the k with 2^k <= n / 10 < 2^(k + 1), n >= 1
RECURSIVE BinadeUp(_, _)
BinadeUp(n, k) == IF 10 * Pow2(k + 1) <= n THEN BinadeUp(n, k + 1) ELSE k
RECURSIVE BinadeDown(_, _)
BinadeDown(n, j) == IF n * Pow2(j) >= 10 THEN 0 - j ELSE BinadeDown(n, j + 1)
Binade(n) == IF n >= 10 THEN BinadeUp(n, 0) ELSE BinadeDown(n, 1)

\* 2^n modulo m
RECURSIVE Pow2Mod(_, _)
Pow2Mod(n, m) == IF n = 0 THEN 1 % m ELSE (2 * Pow2Mod(n - 1, m)) % m

\* The double v * 0.1 for a whole v with v / 10 >= 2^13.  The double 0.1 is
\* 1/10 + 1/(10 * 2^54), so with u = 2^(k - 52) the unit in the last place
\* of the product, the exact product is (Q + t/10 + v / (10 * 2^(k + 2))) * u
\* for a whole Q and t = v * 2^(52 - k) mod 10; it is rounded to the nearest
\* multiple of u, to the even one on a tie.  The result is v / 10 + err / 10
\* * u; err is what this yields.
Times01(v) ==
    LET k == Binade(v)
        t == ((v % 10) * Pow2Mod(52 - k, 10)) % 10
        s == t * Pow2(k + 2) + v
        half == 5 * Pow2(k + 2)
        q == ((((v % 20) * Pow2Mod(52 - k, 20)) % 20) - t) \div 10
        up == IF s = half THEN q % 2 ELSE IF s > half THEN 1 ELSE 0
    IN  [err |-> 10 * up - t, exp |-> k]

\* the bytes recombined with the green byte weighted 255
MapboxDoubleBase255(rgb) ==
    LET v == rgb[1] * 256 * 256 + rgb[2] * 255 + rgb[3]
    IN  [dm |-> v - 100000, err |-> Times01(v).err, exp |-> Times01(v).exp]

\* -10000 + (red * 256 * 256 + green * 256 + blue) * 0.1 in double arithmetic,
\* for samples with v / 10 >= 2^13: the product is a multiple of 2^(exp - 52)
\* below 2^(exp + 1), so subtracting 10000 from it is exact.  The double is
\* dm / 10 + err / 10 * 2^(exp - 52).
MapboxDouble(rgb) ==
    LET v == rgb[1] * 256 * 256 + rgb[2] * 256 + rgb[3]
    IN  [dm |-> v - 100000, err |-> Times01(v).err, exp |-> Times01(v).exp]

\* The double d is the double nearest to d.dm / 10, the one the decimal
\* elevation denotes: it is a multiple of that number's unit in the last place
\* 2^(k' - 52), k' the exponent of |dm / 10|, and is the nearest one when it is
\* off by less than half of it.
IsDecimal(d) ==
    IF d.dm = 0 THEN d.err = 0
    ELSE LET a == IF d.dm < 0 THEN 0 - d.dm ELSE d.dm
             e == IF d.err < 0 THEN 0 - d.err ELSE d.err
         IN  e = 0 \/ e * Pow2(d.exp - Binade(a)) < 5

(***************************************************************************)
(* validateElevationSource                                                 *)
(***************************************************************************)
ElevResponse(status, body, json) ==
    [status |-> status, body |-> body, headers |-> {}, payload |-> NoPayload, json |-> json]
NoJson == [z |-> NaN]

\* the format of the tiles left unchecked
ElevationSourceErrorAnyFormat(item) ==
    IF ~item.registered THEN ElevResponse(404, "Not Found", NoJson)
    ELSE IF item.sourceType # "pmtiles" /\ item.sourceType # "mbtiles"
         THEN ElevResponse(400, "Invalid sourceType. Must be pmtiles or mbtiles.", NoJson)
    ELSE IF item.tileJSON.encoding = Undef
         THEN ElevResponse(400, "Missing tileJSON.encoding", NoJson)
    ELSE IF item.tileJSON.encoding # "terrarium" /\ item.tileJSON.encoding # "mapbox"
         THEN ElevResponse(400, "Invalid encoding. Must be terrarium or mapbox.", NoJson)
    ELSE IF item.tileJSON.minzoom = UndefNum \/ item.tileJSON.maxzoom = UndefNum
         THEN ElevResponse(400, "Missing tileJSON zoom bounds", NoJson)
    ELSE ElevResponse(0, "valid", NoJson)

\* the response of the first check that fails, or status 0 when all pass
ElevationSourceError(item) ==
    IF ~item.registered THEN ElevResponse(404, "Not Found", NoJson)
    ELSE IF item.sourceType # "pmtiles" /\ item.sourceType # "mbtiles"
         THEN ElevResponse(400, "Invalid sourceType. Must be pmtiles or mbtiles.", NoJson)
    ELSE IF item.tileJSON.encoding = Undef
         THEN ElevResponse(400, "Missing tileJSON.encoding", NoJson)
    ELSE IF item.tileJSON.encoding # "terrarium" /\ item.tileJSON.encoding # "mapbox"
         THEN ElevResponse(400, "Invalid encoding. Must be terrarium or mapbox.", NoJson)
    ELSE IF item.tileJSON.format = Undef
         THEN ElevResponse(400, "Missing tileJSON.format", NoJson)
    ELSE IF item.tileJSON.format # "webp" /\ item.tileJSON.format # "png"
         THEN ElevResponse(400, "Invalid format. Must be webp or png.", NoJson)
    ELSE IF item.tileJSON.minzoom = UndefNum \/ item.tileJSON.maxzoom = UndefNum
         THEN ElevResponse(400, "Missing tileJSON zoom bounds", NoJson)
    ELSE ElevResponse(0, "valid", NoJson)

\* the sourceInfo of a source that passed
SourceInfo(item) ==
    [source     |-> item.source,
     sourceType |-> item.sourceType,
     encoding   |-> item.tileJSON.encoding,
     format     |-> item.tileJSON.format,
     tileSize   |-> IF item.tileJSON.tileSize = UndefNum \/ item.tileJSON.tileSize = 0
                    THEN 512 ELSE item.tileJSON.tileSize,
     minzoom    |-> item.tileJSON.minzoom,
     maxzoom    |-> item.tileJSON.maxzoom]

(***************************************************************************)
(* getBatchElevations                                                      *)
(***************************************************************************)
\* zoom of a point, clamped into the source's zoom range
ClampZoom(info, z) ==
    LET z1 == IF Lt(z, info.minzoom) THEN info.minzoom ELSE z
    IN  IF Gt(z1, info.maxzoom) THEN info.maxzoom ELSE z1

\* tile and pixel of a point
PointTile(info, point) ==
    LET zoom == ClampZoom(info, point.z)
        tp == LonLatToTilePixel(point.lon, point.lat, zoom, info.tileSize)
    IN  [zoom |-> zoom, tileX |-> tp.tileX, tileY |-> tp.tileY,
         pixelX |-> tp.pixelX, pixelY |-> tp.pixelY]

\* the key without the zoom
TileKeyWithoutZoom(g) == <<g.tileX, g.tileY>>

\* `${zoom},${tileX},${tileY}`
TileKey(g) == <<g.zoom, g.tileX, g.tileY>>

\* position of the group with the key in the Map, 0 when it has none
GroupIndex(gs, key) ==
    IF \E k \in 1..Len(gs) : TileKey(gs[k]) = key
    THEN CHOOSE k \in 1..Len(gs) : TileKey(gs[k]) = key
    ELSE 0

\* tileGroups after point i was added to it
AddPoint(gs, info, points, i) ==
    LET t == PointTile(info, points[i])
        pixel == [pixelX |-> t.pixelX, pixelY |-> t.pixelY, index |-> i]
        k == GroupIndex(gs, TileKey(t))
    IN  IF k = 0
        THEN Append(gs, [zoom |-> t.zoom, tileX |-> t.tileX, tileY |-> t.tileY,
                         pixels |-> <<pixel>>])
        ELSE [gs EXCEPT ![k].pixels = Append(@, pixel)]

\* the first loop of getBatchElevations over points 1..n
RECURSIVE GroupPoints(_, _, _)
GroupPoints(info, points, n) ==
    IF n = 0 THEN <<>> ELSE AddPoint(GroupPoints(info, points, n - 1), info, points, n)

\* results filled in decoding order
RECURSIVE StoreElevationsByPosition(_, _, _)
StoreElevationsByPosition(rs, elevations, n) ==
    IF n = 0 THEN rs
    ELSE [StoreElevationsByPosition(rs, elevations, n - 1) EXCEPT ![n] = elevations[n].elevation]

\* results[index] = elevation, for each decoded pixel
RECURSIVE StoreElevations(_, _, _)
StoreElevations(rs, elevations, n) ==
    IF n = 0 THEN rs
    ELSE [StoreElevations(rs, elevations, n - 1) EXCEPT
             ![elevations[n].index] = elevations[n].elevation]

\* new Array(points.length).fill(null)
NullResults(points) == [i \in 1..Len(points) |-> Null]

(***************************************************************************)
(* GET /:id/elevation/:z/:x/:y and POST /:id/elevation                     *)
(***************************************************************************)
\* A :x or :y path segment: what parseFloat and parseInt make of it; the float
\* is in thousandths, and a segment that starts with no number parses to NaN
Segments == {"0", "1", "2", "-1", "0.0", "45.5", "-45.5", "0.5", "abc"}
ParseFloat(seg) ==
    CASE seg = "0" -> 0 [] seg = "1" -> 1000 [] seg = "2" -> 2000 [] seg = "-1" -> -1000
      [] seg = "0.0" -> 0 [] seg = "45.5" -> 45500 [] seg = "-45.5" -> -45500
      [] seg = "0.5" -> 500 [] OTHER -> NaN
ParseInt(seg) ==
    CASE seg = "0" -> 0 [] seg = "1" -> 1 [] seg = "2" -> 2 [] seg = "-1" -> -1
      [] seg = "0.0" -> 0 [] seg = "45.5" -> 45 [] seg = "-45.5" -> -45
      [] seg = "0.5" -> 0 [] OTHER -> NaN
\* Number.isInteger of a parsed float
IsInteger(f) == f # NaN /\ f % 1000 = 0

\* a segment written as an integer, without a fraction part
IntegerLiteral(seg) == seg \in {"0", "1", "2", "-1"}
\* the mode decided by how x and y are written
TileModeByFormatting(r) == IntegerLiteral(r.x) /\ IntegerLiteral(r.y)

\* Number.isInteger(x) && Number.isInteger(y)
TileMode(r) == IsInteger(ParseFloat(r.x)) /\ IsInteger(ParseFloat(r.y))

\* bounds check of tile-coordinate mode
ElevationOutOfBounds(info, zoom, intX, intY) ==
    \/ Lt(zoom, info.minzoom)
    \/ Gt(zoom, info.maxzoom)
    \/ Lt(intX, 0)
    \/ Lt(intY, 0)
    \/ Ge(intX, Pow2(zoom))
    \/ Ge(intY, Pow2(zoom))

\* the point the GET handler hands to getBatchElevations
QueryPoint(r) ==
    IF TileMode(r)
    THEN LET m == TileMidpoint(ParseInt(r.x), ParseInt(r.y), r.z)
         IN  [lon |-> m.lon, lat |-> m.lat, z |-> r.z]
    ELSE [lon |-> ParseFloat(r.x), lat |-> ParseFloat(r.y), z |-> r.z]

\* the JSON body of the GET handler's 200
ElevationJson(info, point, elevation) ==
    LET clampedZoom == ClampZoom(info, point.z)
        tp == LonLatToTilePixel(point.lon, point.lat, clampedZoom, info.tileSize)
    IN  [long |-> point.lon, lat |-> point.lat, elevation |-> elevation,
         z |-> clampedZoom, x |-> tp.tileX, y |-> tp.tileY,
         pixelX |-> tp.pixelX, pixelY |-> tp.pixelY]

\* getBatchElevations is entered: the groups are built, the results are nulls
EnterBatch(r, info, points) ==
    /\ req' = r
    /\ pc' = "fetch"
    /\ res' = NoRes
    /\ groups' = GroupPoints(info, points, Len(points))
    /\ results' = NullResults(points)

\* a handler answers before any fetch
Answer(r, response) ==
    /\ req' = r
    /\ pc' = "done"
    /\ res' = response
    /\ groups' = <<>>
    /\ results' = <<>>

\* GET /:id/elevation/:z/:x/:y up to its first await
ElevationGet(id, z, xs, ys) ==
    /\ pc = "idle"
    /\ LET r0 == [kind |-> "elevation", id |-> id, z |-> z, x |-> xs, y |-> ys]
           item == Lookup(id)
           e == ElevationSourceError(item)
       IN  IF e.status # 0 THEN Answer([r0 EXCEPT !.z = z] @@ [points |-> <<>>], e)
           ELSE LET info == SourceInfo(item)
                    point == QueryPoint(r0)
                    r == r0 @@ [points |-> <<point>>]
                IN  IF TileMode(r0) /\ ElevationOutOfBounds(info, z, ParseInt(xs), ParseInt(ys))
                    THEN Answer(r0 @@ [points |-> <<>>],
                                ElevResponse(404, "Out of bounds", NoJson))
                    ELSE EnterBatch(r, info, <<point>>)
    /\ fetchLog' = <<>>
    /\ UNCHANGED <<env, repo>>

\* A point of a request body.  A lon, lat or z that is no finite number (a
\* string, a missing key, null, NaN, Infinity) is NaN; an entry of the array
\* that is no object is NullPoint.
NullPoint == [lon |-> Null, lat |-> Null, z |-> Null]
IsFiniteNumber(a) == a # NaN /\ a # Null /\ a # UndefNum

\* validatePoint(point, index): the error, or "null"
ValidatePoint(point, index) ==
    IF point = NullPoint THEN "Invalid point: point must be an object"
    ELSE IF ~IsFiniteNumber(point.lon) THEN "Invalid point: lon must be a finite number"
    ELSE IF ~IsFiniteNumber(point.lat) THEN "Invalid point: lat must be a finite number"
    ELSE IF ~IsFiniteNumber(point.z) THEN "Invalid point: z must be a finite number"
    ELSE "null"

\* index of the first point validatePoint reports, 0 when it reports none
FirstInvalid(points) ==
    IF \E i \in 1..Len(points) : ValidatePoint(points[i], i) # "null"
    THEN CHOOSE i \in 1..Len(points) :
             /\ ValidatePoint(points[i], i) # "null"
             /\ \A j \in 1..(i - 1) : ValidatePoint(points[j], j) = "null"
    ELSE 0

\* a request body: whether body.points is an array, and its entries
ArrayBody(points) == [isArray |-> TRUE, points |-> points]
NoArrayBody == [isArray |-> FALSE, points |-> <<>>]

\* POST /:id/elevation up to its first await
ElevationPost(id, body) ==
    /\ pc = "idle"
    /\ LET points == body.points
           r == [kind |-> "batch", id |-> id, points |-> points, isArray |-> body.isArray]
           item == Lookup(id)
           e == ElevationSourceError(item)
           bad == FirstInvalid(points)
       IN  IF e.status # 0 THEN Answer(r, e)
           ELSE IF ~body.isArray \/ Len(points) = 0
                THEN Answer(r, ElevResponse(400, "Missing or empty points array", NoJson))
           ELSE IF bad # 0
                THEN Answer(r, ElevResponse(400, ValidatePoint(points[bad], bad),
                                            [index |-> bad - 1]))
           ELSE EnterBatch(r, SourceInfo(item), points)
    /\ fetchLog' = <<>>
    /\ UNCHANGED <<env, repo>>

\* a batch with a null in it answered like a single point that is null
BatchResponseEmptyOnNull(r, info, rs) ==
    IF \E i \in 1..Len(rs) : rs[i] = Null THEN ElevResponse(204, "", NoJson)
    ELSE IF r.kind = "batch" THEN ElevResponse(200, "results", NoJson)
    ELSE ElevResponse(200, "json", ElevationJson(info, r.points[1], rs[1]))

\* the response once every group was processed
BatchResponse(r, info, rs) ==
    IF r.kind = "batch" THEN ElevResponse(200, "results", NoJson)
    ELSE IF rs[1] = Null THEN ElevResponse(204, "", NoJson)
    ELSE ElevResponse(200, "json", ElevationJson(info, r.points[1], rs[1]))

\* One turn of the second loop of getBatchElevations: the fetch of the next
\* group settles, its pixels are decoded and stored; after the last group the
\* handler responds.
GroupFetched(io) ==
    /\ pc = "fetch"
    /\ req.kind \in {"elevation", "batch"}
    /\ Len(fetchLog) < Len(groups)
    /\ LET item == repo[req.id]
           info == SourceInfo(item)
           file == files[info.source]
           g == groups[Len(fetchLog) + 1]
           lookup == ContainerLookup(file, g.zoom, g.tileX, g.tileY, io)
           tile == StoredTile(item, file, g.zoom, g.tileX, g.tileY)
           elevations == GetBatchElevationsFromTile(isLight, tile.data, info.encoding, g.pixels)
           last == Len(fetchLog) + 1 = Len(groups)
       IN  /\ fetchLog' = Append(fetchLog, LogEntry(g.zoom, g.tileX, g.tileY, lookup))
           /\ \E fetched \in FetchTileData(info.sourceType, lookup) :
                  LET rs == IF fetched = "data"
                            THEN StoreElevations(results, elevations, Len(elevations))
                            ELSE results
                  IN  IF fetched = "never"
                      THEN pc' = "hung" /\ res' = NoRes /\ results' = results
                      ELSE /\ results' = rs
                           /\ IF last
                              THEN pc' = "done" /\ res' = BatchResponse(req, info, rs)
                              ELSE pc' = "fetch" /\ res' = NoRes
    /\ UNCHANGED <<env, repo, req, groups>>

\* The handler has returned: its request and response objects are dropped.  A
\* handler whose fetch never settles stays suspended and holds nothing the
\* next request reads.
Return ==
    /\ pc \in {"done", "hung"}
    /\ pc' = "idle"
    /\ req' = NoReq
    /\ res' = NoRes
    /\ fetchLog' = <<>>
    /\ groups' = <<>>
    /\ results' = <<>>
    /\ UNCHANGED <<env, repo>>

(***************************************************************************)
(* Requests the model sends to the tile route                              *)
(***************************************************************************)
RequestIds == DataIds \cup {"non_existent"}
RequestFormats == {"pbf", "png", "geojson", "mvt"}
\* parseInt of the :z segment; NaN for a segment that is no number
RequestZooms == (-1..(MaxZoom + 1)) \cup {NaN}
\* parseInt of the :x and :y segments, around the edges of the zoom's grid
RequestCoords(z) ==
    IF z = NaN THEN {0, 1, NaN} ELSE {-1, 0, Pow2(z) - 1, Pow2(z), NaN}

(***************************************************************************)
(* Tile serving: the registry is filled, tile requests are answered        *)
(***************************************************************************)
InitRequest ==
    /\ repo = [id \in DataIds |-> NoItem]
    /\ req = NoReq
    /\ pc = "idle"
    /\ res = NoRes
    /\ fetchLog = <<>>
    /\ groups = <<>>
    /\ results = <<>>

\* a tile is stored for the first column of every zoom, none for the others
FirstColumn == {a \in Addresses : a[2] = 0}

Init ==
    /\ options \in [sparse : {Undef}, pbfAlias : {Undef, "mvt"}, dataDecoratorFunc : {Undef, "keep"}]
    /\ data \in [DataIds -> Params(SourceTypes, TriState, {Undef}, {UndefNum}, {NoOverride})]
    /\ files \in [DataIds -> Files({TRUE}, Infos({"pbf", "png"}, Zooms), {FirstColumn},
                                   BOOLEAN, BOOLEAN)]
    /\ \A id \in DataIds : /\ files[id].info.minzoom <= 1
                           /\ files[id].info.maxzoom = MaxZoom
    /\ isLight = FALSE
    /\ server = NoServer
    /\ InitRequest

Next ==
    \/ \E id \in DataIds : Add(id)
    \/ /\ pc = "idle"
       /\ \E id \in RequestIds, z \in RequestZooms, f \in RequestFormats :
              \E x \in RequestCoords(z), y \in RequestCoords(z) : TileRequest(id, z, x, y, f)
    \/ \E io \in {"ok", "ioerror"} : TileFetched(io)
    \/ Return

Spec == Init /\ [][Next]_vars

(***************************************************************************)
(* Registration alone, over every configuration of a data source           *)
(***************************************************************************)
InitAdd ==
    /\ options \in [sparse : TriState, pbfAlias : {Undef}, dataDecoratorFunc : Decorators]
    /\ data \in [DataIds -> Params(SourceTypes, TriState, {Undef, "mapbox"}, {UndefNum},
                                   TileJSONOverrides)]
    /\ files \in [DataIds -> Files(BOOLEAN, Infos(Formats \cup {Undef}, 0..1), {FirstColumn},
                                   {FALSE}, {TRUE})]
    /\ isLight = FALSE
    /\ server = NoServer
    /\ InitRequest

NextAdd == \E id \in DataIds : Add(id)

SpecAdd == InitAdd /\ [][NextAdd]_vars

(***************************************************************************)
(* Elevation queries against a terrain source                              *)
(***************************************************************************)
\* a tile is stored for every address on or above the diagonal of its zoom
UpperRight == {a \in Addresses : a[2] >= a[3]}

\* the positions a batch queries, in millidegrees: one in the north-west and
\* one in the south-west quadrant, on one tile at zoom 0 and apart from zoom 1
Positions == {<<-45500, 45500>>, <<-45500, -45500>>}
\* the z of a point of a batch: in range, and beyond either end
PointZooms == {0, 1, MaxZoom + 1}
QueryPoints == {[lon |-> p[1], lat |-> p[2], z |-> z] : p \in Positions, z \in PointZooms}
Batches == UNION {[1..n -> QueryPoints] : n \in 0..MaxPoints}

InitElev ==
    /\ options \in [sparse : {Undef}, pbfAlias : {Undef}, dataDecoratorFunc : {Undef}]
    /\ data \in [DataIds -> Params(SourceTypes, {Undef}, {Undef, "mapbox", "terrarium"},
                                   {UndefNum, 256}, {NoOverride})]
    /\ files \in [DataIds -> Files({TRUE}, Infos({"png", "pbf"}, Zooms), {UpperRight},
                                   {FALSE}, {TRUE})]
    /\ \A id \in DataIds : /\ files[id].info.minzoom <= 1
                           /\ files[id].info.maxzoom = MaxZoom
    /\ isLight \in BOOLEAN
    /\ server = NoServer
    /\ InitRequest

NextElev ==
    \/ \E id \in DataIds : Add(id)
    \/ /\ pc = "idle"
       /\ \E id \in RequestIds, z \in RequestZooms, xs \in Segments, ys \in Segments :
              ElevationGet(id, z, xs, ys)
    \/ \E io \in {"ok", "ioerror"} : GroupFetched(io)
    \/ Return

SpecElev == InitElev /\ [][NextElev]_vars

(***************************************************************************)
(* Batch elevation queries against a terrain source                        *)
(***************************************************************************)
InitBatch ==
    /\ options \in [sparse : {Undef}, pbfAlias : {Undef}, dataDecoratorFunc : {Undef}]
    /\ data \in [DataIds -> Params(SourceTypes, {Undef}, {"mapbox"}, {UndefNum}, {NoOverride})]
    /\ files \in [DataIds -> Files({TRUE}, Infos({"png"}, Zooms), {UpperRight}, {FALSE}, {TRUE})]
    /\ \A id \in DataIds : /\ files[id].info.minzoom <= 1
                           /\ files[id].info.maxzoom = MaxZoom
    /\ isLight \in BOOLEAN
    /\ server = NoServer
    /\ InitRequest

NextBatch ==
    \/ \E id \in DataIds : Add(id)
    \/ /\ pc = "idle"
       /\ \E id \in RequestIds, points \in Batches :
              /\ id \in DataIds \/ Len(points) <= 1
              /\ ElevationPost(id, ArrayBody(points))
    \/ \E io \in {"ok", "ioerror"} : GroupFetched(io)
    \/ Return

SpecBatch == InitBatch /\ [][NextBatch]_vars

(***************************************************************************)
(* Elevation queries, well-formed and malformed, against sources that are  *)
(* terrain sources and sources that are not                                *)
(***************************************************************************)
\* a source declares both zoom bounds, in order, or lacks one of them
DeclaredZooms == {UndefNum, 0, MaxZoom}

BodyPoints == {NullPoint} \cup
    {[lon |-> a, lat |-> b, z |-> c] : a \in {NaN, -45500}, b \in {NaN, 45500}, c \in {NaN, 1}}
Bodies == {NoArrayBody} \cup {ArrayBody(b) : b \in UNION {[1..n -> BodyPoints] : n \in 0..2}}

InitValidate ==
    /\ options \in [sparse : {Undef}, pbfAlias : {Undef}, dataDecoratorFunc : {Undef}]
    /\ data \in [DataIds -> Params({"mbtiles"}, {Undef}, Encodings, {UndefNum}, {NoOverride})]
    /\ files \in [DataIds -> Files({TRUE}, Infos(Formats, DeclaredZooms), {UpperRight},
                                   {FALSE}, {TRUE})]
    /\ \A id \in DataIds : \/ files[id].info.minzoom = UndefNum
                           \/ files[id].info.maxzoom = UndefNum
                           \/ files[id].info.minzoom <= files[id].info.maxzoom
    /\ isLight = FALSE
    /\ server = NoServer
    /\ InitRequest

NextValidate ==
    \/ \E id \in DataIds : Add(id)
    \/ /\ pc = "idle"
       /\ \E id \in RequestIds, z \in {0, MaxZoom + 1, NaN}, xs, ys \in {"0", "0.5", "abc"} :
              ElevationGet(id, z, xs, ys)
    \/ /\ pc = "idle"
       /\ \E id \in RequestIds, body \in Bodies : ElevationPost(id, body)
    \/ \E io \in {"ok", "ioerror"} : GroupFetched(io)
    \/ Return

SpecValidate == InitValidate /\ [][NextValidate]_vars

(***************************************************************************)
(* The terrain fixture: an elevation is encoded into a pixel, the pixel is *)
(* decoded                                                                 *)
(***************************************************************************)
\* decimetres above each base elevation the model encodes
MaxDecimetres == 30
\* the elevations of the fixture's tiles, and those around sea level, around
\* the first fixture elevation and at the top of the encoding's range
Elevations ==
    {1000, 2000, 5000, 10000, 25000} \cup
    UNION {{base + i : i \in 0..MaxDecimetres} : base \in {-15, 1000, 16677185 - MaxDecimetres}}

InitDecode ==
    /\ options \in [sparse : {Undef}, pbfAlias : {Undef}, dataDecoratorFunc : {Undef}]
    /\ data \in [DataIds -> Params({"mbtiles"}, {Undef}, {"mapbox"}, {UndefNum}, {NoOverride})]
    /\ files \in [DataIds -> Files({TRUE}, Infos({"png"}, {0}), {UpperRight}, {FALSE}, {TRUE})]
    /\ isLight = FALSE
    /\ server = NoServer
    /\ repo = [id \in DataIds |-> NoItem]
    /\ req \in {[kind |-> "pixel", elevation |-> dm] : dm \in Elevations}
    /\ pc = "encode"
    /\ res = NoRes
    /\ fetchLog = <<>>
    /\ groups = <<>>
    /\ results = <<>>

\* createTerrainTile: the tile is filled with the colour of the elevation
EncodeTile ==
    /\ pc = "encode"
    /\ pc' = "decode"
    /\ res' = [status |-> 0, body |-> "rgb", rgb |-> ElevationToMapboxRGB(req.elevation)]
    /\ UNCHANGED <<env, repo, req, fetchLog, groups, results>>

\* the pixel is decoded
DecodePixel ==
    /\ pc = "decode"
    /\ pc' = "decoded"
    /\ results' = <<MapboxDouble(res.rgb)>>
    /\ UNCHANGED <<env, repo, req, res, fetchLog, groups>>

NextDecode == EncodeTile \/ DecodePixel

SpecDecode == InitDecode /\ [][NextDecode]_vars

(***************************************************************************)
(* GeoJSON conversion: the features of a vector tile, layer by layer       *)
(***************************************************************************)
MaxFeatures == 2
LayerNames == <<"water", "roads", "poi">>
\* a feature of the tile is described by the layer property it carries of its
\* own, undefined when it carries none
OwnLayerProps == {Undef, "water"}
RECURSIVE SeqsUpTo(_, _)
SeqsUpTo(S, n) ==
    IF n = 0 THEN {<<>>}
    ELSE LET shorter == SeqsUpTo(S, n - 1)
         IN  shorter \cup {Append(q, e) : q \in {t \in shorter : Len(t) = n - 1}, e \in S}
\* tile.layers: layer name -> the features of the layer, in index order
VectorTiles == [{LayerNames[k] : k \in 1..Len(LayerNames)} -> SeqsUpTo(OwnLayerProps, MaxFeatures)]

\* a feature keeps the layer property it came with
TagFeatureKeepOwn(layerName, i, own) ==
    [layer |-> IF own # Undef THEN own ELSE layerName, source |-> layerName, index |-> i]
\* featureGeoJSON.properties.layer = layerName
TagFeature(layerName, i, own) ==
    [layer |-> layerName, source |-> layerName, index |-> i]

\* for (let i = 0; i < layer.length; i++) geojson.features.push(..)
RECURSIVE PushLayer(_, _, _, _)
PushLayer(features, layerName, layer, i) ==
    IF i >= Len(layer) THEN features
    ELSE PushLayer(Append(features, TagFeature(layerName, i, layer[i + 1])),
                   layerName, layer, i + 1)

\* for (const layerName in tile.layers)
RECURSIVE PushLayers(_, _, _)
PushLayers(features, layers, k) ==
    IF k > Len(LayerNames) THEN features
    ELSE PushLayers(PushLayer(features, LayerNames[k], layers[LayerNames[k]], 0), layers, k + 1)

\* the FeatureCollection of a tile
FeatureCollection(layers) == PushLayers(<<>>, layers, 1)

InitGeoJSON ==
    /\ options \in [sparse : {Undef}, pbfAlias : {Undef}, dataDecoratorFunc : {Undef}]
    /\ data \in [DataIds -> Params({"mbtiles"}, {Undef}, {Undef}, {UndefNum}, {NoOverride})]
    /\ files \in [DataIds -> Files({TRUE}, Infos({"pbf"}, {0}), {FirstColumn}, {FALSE}, {TRUE})]
    /\ isLight = FALSE
    /\ server = NoServer
    /\ repo = [id \in DataIds |-> NoItem]
    /\ req \in {[kind |-> "geojson", layers |-> t] : t \in VectorTiles}
    /\ pc = "fetched"
    /\ res = NoRes
    /\ fetchLog = <<>>
    /\ groups = <<>>
    /\ results = <<>>

\* the geojson branch of the tile route, on the parsed tile
ConvertTile ==
    /\ pc = "fetched"
    /\ pc' = "done"
    /\ res' = [status |-> 200, body |-> "geojson", features |-> FeatureCollection(req.layers)]
    /\ UNCHANGED <<env, repo, req, fetchLog, groups, results>>

NextGeoJSON == ConvertTile

SpecGeoJSON == InitGeoJSON /\ [][NextGeoJSON]_vars

(***************************************************************************)
(* Reloading: SIGHUP shuts the running server down and starts a new        *)
(* generation.  Callbacks of one turn of the event loop (process.nextTick  *)
(* callbacks, then promise continuations) run before any further I/O       *)
(* event: a signal, a request, a response, a settled listen.               *)
(***************************************************************************)
MaxSighups == 2
MaxInflight == 1

\* what start() creates: an app with a fresh serving object and a server
NewGeneration(listen) ==
    [listen |-> listen, inflight |-> 0, rendered |-> "empty", waited |-> FALSE]

\* the port is bound by a generation's server
PortHeld(gens) == \E g \in 1..Len(gens) : gens[g].listen = "listening"

\* app.listen(port, bind): with a bind address the address is looked up first
\* and the port bound afterwards, without one the port is bound at once
Listen(bindHost, gens) ==
    IF bindHost THEN "pending" ELSE IF PortHeld(gens) THEN "failed" ELSE "listening"

\* a server with connections left closes at once
DrainedForced(gen) == TRUE
\* server.shutdown: the server closes when its last connection has ended, and
\* a connection ends when its request is answered
Drained(gen) == gen.inflight = 0

\* serve_rendered.clear(repo): the renderers of every entry are released
Clear(rendered) == IF rendered = "empty" THEN "empty" ELSE "cleared"

\* callbacks of the current turn are still to run
InTurn == \E k \in 1..Len(server.cbs) : server.cbs[k].stage \in {"tick", "started"}
Ticking == \E k \in 1..Len(server.cbs) : server.cbs[k].stage = "tick"
FirstAt(stage) ==
    CHOOSE k \in 1..Len(server.cbs) :
        /\ server.cbs[k].stage = stage
        /\ \A j \in 1..(k - 1) : server.cbs[j].stage # stage
ListenFailed == \E g \in 1..Len(server.gens) : server.gens[g].listen = "failed"
\* the event loop takes the next I/O event
Polling == server.alive /\ ~InTurn

InitReload ==
    /\ options \in [sparse : {Undef}, pbfAlias : {Undef}, dataDecoratorFunc : {Undef}]
    /\ data \in [DataIds -> Params({"mbtiles"}, {Undef}, {Undef}, {UndefNum}, {NoOverride})]
    /\ files \in [DataIds -> Files({TRUE}, Infos({"pbf"}, {0}), {FirstColumn}, {FALSE}, {TRUE})]
    /\ isLight = FALSE
    /\ server \in {[kind |-> "reload", alive |-> TRUE, bindHost |-> b,
                     gens |-> <<NewGeneration("listening")>>,
                     running |-> [server |-> 1, serving |-> 1],
                     cbs |-> <<>>, sighups |-> 0] : b \in BOOLEAN}
    /\ InitRequest

\* process.on('SIGHUP'): running.server.shutdown(callback)
Sighup ==
    /\ Polling
    /\ server.sighups < MaxSighups
    /\ LET g == server.running.server
       IN  /\ server.gens[g].listen \in {"listening", "closing"}
           /\ server' = [server EXCEPT
                  !.sighups = @ + 1,
                  !.gens[g].listen = "closing",
                  !.gens[g].waited = @ \/ server.gens[g].inflight > 0,
                  !.cbs = Append(@, [server |-> g, stage |-> "wait", restarted |-> 0])]
    /\ UNCHANGED routes

\* a request reaches a listening server
RequestArrives(g) ==
    /\ Polling
    /\ server.gens[g].listen = "listening"
    /\ server.gens[g].inflight < MaxInflight
    /\ server' = [server EXCEPT !.gens[g].inflight = @ + 1]
    /\ UNCHANGED routes

\* a request is answered, having used the handles of its generation
RequestFinishes(g) ==
    /\ Polling
    /\ server.gens[g].inflight > 0
    /\ server' = [server EXCEPT !.gens[g].inflight = @ - 1]
    /\ UNCHANGED routes

\* serve_rendered.add of a generation's styles has settled
RenderedAdded(g) ==
    /\ Polling
    /\ server.gens[g].rendered = "empty"
    /\ server.gens[g].listen \in {"pending", "listening"}
    /\ server' = [server EXCEPT !.gens[g].rendered = "loaded"]
    /\ UNCHANGED routes

\* the address of a server has been looked up and the port is bound
ListenSettles(g) ==
    /\ Polling
    /\ server.gens[g].listen = "pending"
    /\ server' = [server EXCEPT
           !.gens[g].listen = IF PortHeld(server.gens) THEN "failed" ELSE "listening"]
    /\ UNCHANGED routes

\* the 'close' event of a server in shutdown: every callback given to
\* shutdown is scheduled with process.nextTick
CloseEvent(g) ==
    /\ Polling
    /\ server.gens[g].listen = "closing"
    /\ Drained(server.gens[g])
    /\ server' = [server EXCEPT
           !.gens[g].listen = "closed",
           !.cbs = [k \in 1..Len(@) |->
                       IF @[k].server = g /\ @[k].stage = "wait"
                       THEN [@[k] EXCEPT !.stage = "tick"] ELSE @[k]]]
    /\ UNCHANGED routes

\* the shutdown callback up to its await: start(opts)
StartGeneration ==
    /\ server.alive
    /\ Ticking
    /\ LET k == FirstAt("tick")
           new == NewGeneration(Listen(server.bindHost, server.gens))
       IN  server' = [server EXCEPT
               !.gens = Append(@, new),
               !.cbs[k] = [@ EXCEPT !.stage = "started", !.restarted = Len(server.gens) + 1]]
    /\ UNCHANGED routes

\* server.on('error'): process.exit(1).  The error of a port bound at once is
\* emitted with process.nextTick, that of a looked-up address as an event.
ServerError ==
    /\ server.alive
    /\ ListenFailed
    /\ ~Ticking
    /\ server.bindHost => ~InTurn
    /\ server' = [server EXCEPT !.alive = FALSE]
    /\ UNCHANGED routes

\* the shutdown callback after its await: the rendered registry that running
\* refers to is cleared and running is moved to the generation started
Restarted ==
    /\ server.alive
    /\ ~Ticking
    /\ server.bindHost \/ ~ListenFailed
    /\ \E j \in 1..Len(server.cbs) : server.cbs[j].stage = "started"
    /\ LET k == FirstAt("started")
           cb == server.cbs[k]
           old == server.running.serving
       IN  server' = [server EXCEPT
               !.gens[old].rendered = IF isLight THEN @ ELSE Clear(@),
               !.running = [server |-> cb.restarted, serving |-> cb.restarted],
               !.cbs = SubSeq(@, 1, k - 1) \o SubSeq(@, k + 1, Len(@))]
    /\ UNCHANGED routes

NextReload ==
    \/ Sighup
    \/ \E g \in 1..Len(server.gens) : RequestArrives(g)
    \/ \E g \in 1..Len(server.gens) : RequestFinishes(g)
    \/ \E g \in 1..Len(server.gens) : RenderedAdded(g)
    \/ \E g \in 1..Len(server.gens) : ListenSettles(g)
    \/ \E g \in 1..Len(server.gens) : CloseEvent(g)
    \/ StartGeneration
    \/ ServerError
    \/ Restarted

SpecReload == InitReload /\ [][NextReload]_vars

(***************************************************************************)
(* The TileJSON route, and requests of every kind against one registry     *)
(***************************************************************************)
Hosts == {"localhost:8080", "tiles.example.com"}
Keys == {Undef, "k1"}

\* the stored object itself, under another name
CloneSameObject(tileJSON) == [alias |-> TRUE, value |-> tileJSON]
\* clone(item.tileJSON): a copy that shares nothing with the stored object
Clone(tileJSON) == [alias |-> FALSE, value |-> tileJSON]

\* obj.tiles = urls
SetTiles(obj, urls) ==
    [k \in DOMAIN obj \cup {"tiles"} |-> IF k = "tiles" THEN urls ELSE obj[k]]

\* getTileUrls without configured domains or public url: one url, on the
\* request's host, with the alias of the format as extension and the key as
\* query
GetTileUrls(host, key, path, format, aliases) ==
    LET ext == IF format \in DOMAIN aliases /\ aliases[format] # Undef
               THEN aliases[format] ELSE format
    IN  << [host |-> host, path |-> path, tileParams |-> "{z}/{x}/{y}", format |-> ext,
            query |-> IF key # Undef THEN key ELSE ""] >>

\* GET /:id.json
TileJSONRequest(id, host, key) ==
    /\ pc = "idle"
    /\ pc' = "done"
    /\ req' = [kind |-> "tilejson", id |-> id, host |-> host, key |-> key]
    /\ LET item == Lookup(id)
       IN  IF ~item.registered
           THEN /\ res' = Response(404, "Not Found")
                /\ repo' = repo
           ELSE LET info == Clone(item.tileJSON)
                    urls == GetTileUrls(host, key, <<"data", id>>, info.value.format,
                                        [pbf |-> options.pbfAlias])
                IN  /\ res' = [status |-> 200, body |-> "tilejson",
                               json |-> SetTiles(info.value, urls)]
                    /\ repo' = IF info.alias
                               THEN [repo EXCEPT ![id].tileJSON = SetTiles(@, urls)]
                               ELSE repo
    /\ UNCHANGED <<env, fetchLog, groups, results>>

InitFrame ==
    /\ options \in [sparse : {Undef}, pbfAlias : {Undef, "mvt"}, dataDecoratorFunc : {Undef}]
    /\ data \in [DataIds -> Params(SourceTypes, {Undef}, {Undef, "mapbox"}, {UndefNum},
                                   {NoOverride})]
    /\ files \in [DataIds -> Files({TRUE}, Infos({"png", "pbf"}, {0}), {UpperRight},
                                   {FALSE}, {TRUE})]
    /\ isLight = FALSE
    /\ server = NoServer
    /\ InitRequest

NextFrame ==
    \/ \E id \in DataIds : Add(id)
    \/ /\ pc = "idle"
       /\ \E id \in RequestIds, f \in {"pbf", "png"} : TileRequest(id, 0, 0, 0, f)
    \/ \E io \in {"ok", "ioerror"} : TileFetched(io)
    \/ /\ pc = "idle"
       /\ \E id \in RequestIds, host \in Hosts, key \in Keys : TileJSONRequest(id, host, key)
    \/ /\ pc = "idle"
       /\ \E id \in RequestIds, xs \in {"0", "45.5"} : ElevationGet(id, 0, xs, xs)
    \/ /\ pc = "idle"
       /\ \E id \in RequestIds, points \in {b \in Batches : Len(b) <= 1} :
              ElevationPost(id, ArrayBody(points))
    \/ \E io \in {"ok", "ioerror"} : GroupFetched(io)
    \/ Return

SpecFrame == InitFrame /\ [][NextFrame]_vars

(***************************************************************************)
(* Tile requests within the declared bounds; a fetchTileData that was      *)
(* called settles its container lookup in the end                          *)
(***************************************************************************)
InitFetch ==
    /\ options \in [sparse : {Undef}, pbfAlias : {Undef}, dataDecoratorFunc : {Undef}]
    /\ data \in [DataIds -> Params(SourceTypes, TriState, {Undef}, {UndefNum}, {NoOverride})]
    /\ files \in [DataIds -> Files({TRUE}, Infos({"pbf", "png"}, Zooms), {FirstColumn},
                                   BOOLEAN, {TRUE})]
    /\ \A id \in DataIds : /\ files[id].info.minzoom = 0
                           /\ files[id].info.maxzoom = MaxZoom
    /\ isLight = FALSE
    /\ server = NoServer
    /\ InitRequest

NextFetch ==
    \/ \E id \in DataIds : Add(id)
    \/ /\ pc = "idle"
       /\ \E id \in DataIds, z \in Zooms, f \in {"pbf", "png"} :
              \E x \in 0..(Pow2(z) - 1) : TileRequest(id, z, x, 0, f)
    \/ \E io \in {"ok", "ioerror"} : TileFetched(io)
    \/ Return

SpecFetch == InitFetch /\ [][NextFetch]_vars /\ WF_vars(\E io \in {"ok", "ioerror"} : TileFetched(io))

(***************************************************************************)
(* Startup of one generation (server.js start): styles are added, then the *)
(* data sources are loaded; /health reports whether startup is complete    *)
(***************************************************************************)
StyleIds == {"basic", "topo"}
\* what the source of a style names: a data id, the file of a data source,
\* files the data section does not list
StyleSources == {"terrain", "terrain.mbtiles", "extra.mbtiles", "terrain.pmtiles"}

\* styleSourceId.substr(0, styleSourceId.lastIndexOf('.')) || styleSourceId
Stem(f) ==
    CASE f = "terrain.mbtiles" -> "terrain"
      [] f = "terrain.pmtiles" -> "terrain"
      [] f = "extra.mbtiles" -> "extra"
      [] OTHER -> f

\* while (data[id]) id += '_'
RECURSIVE FreshId(_, _)
FreshId(ids, id) == IF id \in ids THEN FreshId(ids, id \o "_") ELSE id

\* the reportTiles callback of addStyle with allowMoreData: the id of the data
\* source that is or has the file, else a new data source under a fresh id
ReportTiles(d, styleSourceId) ==
    LET known == {id \in DOMAIN d : id = styleSourceId \/ d[id] = styleSourceId}
    IN  IF known # {}
        THEN [id |-> CHOOSE id \in known : TRUE, data |-> d]
        ELSE LET id == FreshId(DOMAIN d, Stem(styleSourceId))
             IN  [id |-> id,
                  data |-> [k \in DOMAIN d \cup {id} |-> IF k = id THEN styleSourceId ELSE d[k]]]

\* the promise serve_rendered.add returns for a style
RenderedPromise(s) == "rendered:" \o s

\* the data sources are loaded without waiting for the styles
StylesSettledOrNot(styles) == TRUE
\* Promise.all(stylePromises) has resolved: every addStyle has returned
StylesSettled(styles) == \A s \in DOMAIN styles : styles[s] # "reading"

\* start() has run to its return: addStyle of every configured style waits
\* for its style file, and Promise.all was called on the startupPromises
\* pushed so far
InitStartup ==
    /\ options \in [sparse : {Undef}, pbfAlias : {Undef}, dataDecoratorFunc : {Undef}]
    /\ data \in [DataIds -> Params({"mbtiles"}, {Undef}, {Undef}, {UndefNum}, {NoOverride})]
    /\ files \in [DataIds -> Files({TRUE}, Infos({"pbf"}, {0}), {FirstColumn}, {FALSE}, {TRUE})]
    /\ isLight = FALSE
    /\ InitRequest
    /\ server \in {[kind |-> "startup",
                     source |-> src,
                     styles |-> [s \in StyleIds |-> "reading"],
                     data |-> [id \in DataIds |-> "terrain.mbtiles"],
                     reported |-> {},
                     loads |-> [id \in {} |-> "loading"],
                     dataLoadStarted |-> FALSE,
                     promises |-> {"icons", "init", "stylesThenData", "fonts"},
                     awaited |-> {"icons", "init", "stylesThenData", "fonts"},
                     settled |-> {},
                     startupComplete |-> FALSE,
                     health |-> 0,
                     wasOk |-> FALSE] : src \in [StyleIds -> StyleSources]}

\* addStyle(id, item, true, true) from its await to its return
AddStyle(s, outcome) ==
    /\ server.kind = "startup"
    /\ server.styles[s] = "reading"
    /\ IF outcome = "ok"
       THEN LET r == ReportTiles(server.data, server.source[s])
            IN  server' = [server EXCEPT
                    !.styles[s] = "added",
                    !.data = r.data,
                    !.reported = @ \cup {r.id},
                    !.promises = @ \cup {RenderedPromise(s)}]
       ELSE server' = [server EXCEPT !.styles[s] = "failed"]
    /\ UNCHANGED routes

\* the then-callback of Promise.all(stylePromises): serve_data.add is called
\* for every key of data
StylesDone ==
    /\ server.kind = "startup"
    /\ ~server.dataLoadStarted
    /\ StylesSettled(server.styles)
    /\ server' = [server EXCEPT
           !.dataLoadStarted = TRUE,
           !.loads = [id \in DOMAIN server.data |-> "loading"]]
    /\ UNCHANGED routes

\* serve_data.add of a data source has resolved
DataAdded(id) ==
    /\ server.kind = "startup"
    /\ id \in DOMAIN server.loads
    /\ server.loads[id] = "loading"
    /\ LET loads == [server.loads EXCEPT ![id] = "registered"]
       IN  server' = [server EXCEPT
               !.loads = loads,
               !.settled = IF \A k \in DOMAIN loads : loads[k] = "registered"
                           THEN @ \cup {"stylesThenData"} ELSE @]
    /\ UNCHANGED routes

\* one of the other startup promises settles: the icons, serve_rendered.init,
\* serve_font, serve_rendered.add of a style
PromiseSettles(p) ==
    /\ server.kind = "startup"
    /\ p \in server.promises \ server.settled
    /\ p # "stylesThenData"
    /\ server' = [server EXCEPT !.settled = @ \cup {p}]
    /\ UNCHANGED routes

\* the then-callback of Promise.all(startupPromises)
StartupDone ==
    /\ server.kind = "startup"
    /\ ~server.startupComplete
    /\ server.awaited \subseteq server.settled
    /\ server' = [server EXCEPT !.startupComplete = TRUE]
    /\ UNCHANGED routes

\* GET /health
Health ==
    /\ server.kind = "startup"
    /\ server' = [server EXCEPT
           !.health = IF server.startupComplete THEN 200 ELSE 503,
           !.wasOk = @ \/ server.startupComplete]
    /\ UNCHANGED routes

NextStartup ==
    \/ \E s \in StyleIds, outcome \in {"ok", "unreadable", "invalid"} : AddStyle(s, outcome)
    \/ StylesDone
    \/ \E id \in DOMAIN server.loads : DataAdded(id)
    \/ \E p \in server.promises : PromiseSettles(p)
    \/ StartupDone
    \/ Health

SpecStartup == InitStartup /\ [][NextStartup]_vars

(***************************************************************************)
(* serveAllStyles: the watcher of the styles directory, for one style file *)
(***************************************************************************)
MaxChanges == 3

\* the directory is empty, nothing is served, no event is pending
InitWatch ==
    /\ options \in [sparse : {Undef}, pbfAlias : {Undef}, dataDecoratorFunc : {Undef}]
    /\ data \in [DataIds -> Params({"mbtiles"}, {Undef}, {Undef}, {UndefNum}, {NoOverride})]
    /\ files \in [DataIds -> Files({TRUE}, Infos({"pbf"}, {0}), {FirstColumn}, {FALSE}, {TRUE})]
    /\ isLight = FALSE
    /\ InitRequest
    /\ server = [kind |-> "watch", file |-> "absent", changes |-> 0, events |-> <<>>,
                 reads |-> <<>>, served |-> FALSE, handled |-> 0,
                 lastEvent |-> "none", lastLoaded |-> "none"]

\* the style file is written or deleted; the watcher will report it
FileChanges(content) ==
    /\ server.kind = "watch"
    /\ server.changes < MaxChanges
    /\ content # server.file
    /\ server' = [server EXCEPT
           !.file = content,
           !.changes = @ + 1,
           !.events = Append(@, IF content = "absent" THEN "unlink"
                                ELSE IF server.file = "absent" THEN "add" ELSE "change")]
    /\ UNCHANGED routes

\* watcher.on('all'): the style is removed, and for add and change addStyle
\* is called, which runs to its await of the style file
WatcherEvent ==
    /\ server.kind = "watch"
    /\ server.events # <<>>
    /\ LET eventType == Head(server.events)
           adds == eventType \in {"add", "change"}
       IN  server' = [server EXCEPT
               !.events = Tail(@),
               !.served = FALSE,
               !.handled = @ + 1,
               !.lastEvent = eventType,
               !.lastLoaded = IF adds THEN "pending" ELSE "none",
               !.reads = IF adds
                         THEN Append(@, [event |-> server.handled + 1, content |-> "unread"])
                         ELSE @]
    /\ UNCHANGED routes

\* fs.promises.readFile reads the file as it is at the time
ReadFile(k) ==
    /\ server.kind = "watch"
    /\ k \in 1..Len(server.reads)
    /\ server.reads[k].content = "unread"
    /\ server' = [server EXCEPT !.reads[k].content = server.file]
    /\ UNCHANGED routes

\* addStyle from its await to its return: serve_style.add stores a style
\* that was read and is valid
AddStyleReturns(k) ==
    /\ server.kind = "watch"
    /\ k \in 1..Len(server.reads)
    /\ server.reads[k].content # "unread"
    /\ LET success == server.reads[k].content = "valid"
       IN  server' = [server EXCEPT
               !.served = @ \/ success,
               !.lastLoaded = IF server.reads[k].event = server.handled
                              THEN (IF success THEN "ok" ELSE "failed") ELSE @,
               !.reads = SubSeq(@, 1, k - 1) \o SubSeq(@, k + 1, Len(@))]
    /\ UNCHANGED routes

NextWatch ==
    \/ \E content \in {"absent", "valid", "invalid"} : FileChanges(content)
    \/ WatcherEvent
    \/ \E k \in 1..MaxChanges : ReadFile(k)
    \/ \E k \in 1..MaxChanges : AddStyleReturns(k)

SpecWatch == InitWatch /\ [][NextWatch]_vars

(***************************************************************************)
(* getFontPbf (utils.js): a font is read, and on failure a fallback font   *)
(***************************************************************************)
\* the fonts of the fonts directory, in the order of the keys of allowedFonts;
\* a name is its family and its last word
Fonts == << [family |-> "Zed", style |-> "Oblique"],
            [family |-> "Open Sans", style |-> "Bold"],
            [family |-> "Noto Sans", style |-> "Bold"],
            [family |-> "Open Sans", style |-> "Regular"],
            [family |-> "Noto Sans", style |-> "Regular"] >>
FontSet == {Fonts[k] : k \in 1..Len(Fonts)}

\* delete fallbacks[name]: the keys that remain, in their order
RECURSIVE Delete(_, _)
Delete(fallbacks, name) ==
    IF fallbacks = <<>> THEN <<>>
    ELSE IF Head(fallbacks) = name THEN Delete(Tail(fallbacks), name)
    ELSE <<Head(fallbacks)>> \o Delete(Tail(fallbacks), name)

\* clone(allowedFonts): the allowed fonts in key order
RECURSIVE KeysOf(_, _)
KeysOf(allowed, k) ==
    IF k > Len(Fonts) THEN <<>>
    ELSE (IF Fonts[k] \in allowed THEN <<Fonts[k]>> ELSE <<>>) \o KeysOf(allowed, k + 1)

Has(fallbacks, name) == \E k \in 1..Len(fallbacks) : fallbacks[k] = name

\* the first remaining font, whatever its family
FallbackNameFirstKey(name, fallbacks) == fallbacks[1]
\* the fallback for a font that could not be read
FallbackName(name, fallbacks) ==
    LET fontStyle == IF name.style \in {"Regular", "Bold", "Italic"} THEN name.style
                     ELSE "Regular"
        noto == [family |-> "Noto Sans", style |-> fontStyle]
        open == [family |-> "Open Sans", style |-> fontStyle]
    IN  IF Has(fallbacks, noto) THEN noto
        ELSE IF Has(fallbacks, open) THEN open
        ELSE fallbacks[1]

\* a call of getFontsPbf for one font: the allowed fonts, the fonts whose
\* file can be read, the font asked for
InitFont ==
    /\ options \in [sparse : {Undef}, pbfAlias : {Undef}, dataDecoratorFunc : {Undef}]
    /\ data \in [DataIds -> Params({"mbtiles"}, {Undef}, {Undef}, {UndefNum}, {NoOverride})]
    /\ files \in [DataIds -> Files({TRUE}, Infos({"pbf"}, {0}), {FirstColumn}, {FALSE}, {TRUE})]
    /\ isLight = FALSE
    /\ InitRequest
    /\ server \in {[kind |-> "font", allowed |-> a, readable |-> r, asked |-> n,
                     name |-> n, fallbacks |-> KeysOf(a, 1), tried |-> <<>>,
                     outcome |-> "called"] :
                        a \in SUBSET FontSet, r \in SUBSET FontSet, n \in FontSet}

\* the promise executor of the first call, up to fs.readFile
GetFontPbf ==
    /\ server.kind = "font"
    /\ server.outcome = "called"
    /\ IF server.name \in server.allowed
       THEN server' = [server EXCEPT
                !.outcome = "reading",
                !.fallbacks = Delete(@, server.name)]
       ELSE server' = [server EXCEPT !.outcome = "Font not allowed"]
    /\ UNCHANGED routes

\* the callback of fs.readFile: the data, or the executor of the call for the
\* fallback, or the rejection
FontRead ==
    /\ server.kind = "font"
    /\ server.outcome = "reading"
    /\ LET attempt == [name |-> server.name, fallbacks |-> server.fallbacks]
       IN  IF server.name \in server.readable
           THEN server' = [server EXCEPT !.outcome = "resolved",
                                         !.tried = Append(@, attempt)]
           ELSE IF server.fallbacks # <<>>
           THEN LET fallbackName == FallbackName(server.name, server.fallbacks)
                IN  server' = [server EXCEPT
                        !.tried = Append(@, attempt),
                        !.name = fallbackName,
                        !.fallbacks = Delete(Delete(@, fallbackName), fallbackName)]
           ELSE server' = [server EXCEPT !.outcome = "Font load error",
                                         !.tried = Append(@, attempt)]
    /\ UNCHANGED routes

NextFont == GetFontPbf \/ FontRead

SpecFont == InitFont /\ [][NextFont]_vars /\ WF_vars(NextFont)

(***************************************************************************)
(* Properties                                                              *)
(***************************************************************************)
IsBatch == req.kind = "batch"
IsTile == req.kind = "tile"
IsGet == req.kind = "elevation"
Answered == pc = "done"

\* the source info the handler of the current elevation request works with
ReqInfo == SourceInfo(repo[req.id])
\* tile and pixel of point i of the current request
PointAddr(i) == PointTile(ReqInfo, req.points[i])
SameTile(i, j) ==
    /\ PointAddr(i).zoom = PointAddr(j).zoom
    /\ PointAddr(i).tileX = PointAddr(j).tileX
    /\ PointAddr(i).tileY = PointAddr(j).tileY
\* the address a fetch was made for
LogKey(k) == <<fetchLog[k].z, fetchLog[k].x, fetchLog[k].y>>
PointKey(i) == <<PointAddr(i).zoom, PointAddr(i).tileX, PointAddr(i).tileY>>
\* outcome of the fetch of point i's tile, "none" while it was not fetched
OutcomeOf(i) ==
    IF \E k \in 1..Len(fetchLog) : LogKey(k) = PointKey(i)
    THEN fetchLog[CHOOSE k \in 1..Len(fetchLog) : LogKey(k) = PointKey(i)].outcome
    ELSE "none"
\* the elevation stored in the container at point i's tile and pixel
ExpectedElevation(i) ==
    IF OutcomeOf(i) = "tile" /\ ~isLight
    THEN DecodeElevation(ReqInfo.encoding,
             PixelRGB(PointKey(i), PointAddr(i).pixelX, PointAddr(i).pixelY))
    ELSE Null
BatchAnswered == IsBatch /\ Answered /\ res.status = 200

\* C1: a batch over n points is answered with n entries, and entry i is the
\* elevation stored at point i's own tile and pixel, or null when that tile
\* was not read or the build decodes nothing.
C1_BatchKeepsInputOrder ==
    BatchAnswered =>
        /\ Len(results) = Len(req.points)
        /\ \A i \in 1..Len(req.points) : results[i] = ExpectedElevation(i)

\* three points, the first and third on one tile at different pixels, the
\* second on another tile, all three decoded
C1_Witness ==
    /\ BatchAnswered
    /\ Len(req.points) = 3
    /\ SameTile(1, 3) /\ ~SameTile(1, 2)
    /\ \A i \in 1..3 : results[i] # Null
    /\ results[1] # results[3] /\ results[1] # results[2]

\* C2: within one batch no tile address is fetched twice, only tiles of the
\* points are fetched, and once the batch is answered every distinct
\* (clamped zoom, tileX, tileY) of the points was fetched exactly once.
C2_OneFetchPerTile ==
    (IsBatch /\ pc # "idle" /\ Len(groups) > 0) =>
        /\ \A j, k \in 1..Len(fetchLog) : j # k => LogKey(j) # LogKey(k)
        /\ \A k \in 1..Len(fetchLog) : \E i \in 1..Len(req.points) : LogKey(k) = PointKey(i)
        /\ BatchAnswered =>
               /\ \A i \in 1..Len(req.points) : \E k \in 1..Len(fetchLog) : LogKey(k) = PointKey(i)
               /\ Len(fetchLog) = Cardinality({PointKey(i) : i \in 1..Len(req.points)})

\* three points: two on one tile, the third at the same lon/lat as the first
\* but another clamped zoom; two fetches
C2_Witness ==
    /\ BatchAnswered
    /\ Len(req.points) = 3
    /\ SameTile(1, 2)
    /\ req.points[1].lon = req.points[3].lon /\ req.points[1].lat = req.points[3].lat
    /\ PointAddr(1).zoom # PointAddr(3).zoom
    /\ PointAddr(1).tileX = PointAddr(3).tileX /\ PointAddr(1).tileY = PointAddr(3).tileY
    /\ Len(fetchLog) = 2

\* C3: when every group of a batch was fetched and the container failed on
\* none, the batch is answered 200 with the full-length array; the points of a
\* group whose tile is absent are null and, unless the build decodes nothing,
\* the points of every other group have their elevation.
C3_AbsentTileIsPerGroup ==
    (/\ IsBatch /\ Len(groups) > 0 /\ Len(fetchLog) = Len(groups)
     /\ \A k \in 1..Len(fetchLog) : fetchLog[k].outcome # "ioerror") =>
        /\ Answered /\ res.status = 200
        /\ Len(results) = Len(req.points)
        /\ \A i \in 1..Len(req.points) :
               /\ OutcomeOf(i) = "missing" => results[i] = Null
               /\ (OutcomeOf(i) = "tile" /\ ~isLight) => results[i] # Null

\* the tile of the second point is absent, those of the first and third are not
C3_Witness ==
    /\ BatchAnswered
    /\ Len(req.points) = 3
    /\ OutcomeOf(2) = "missing" /\ results[2] = Null
    /\ OutcomeOf(1) = "tile" /\ results[1] # Null
    /\ OutcomeOf(3) = "tile" /\ results[3] # Null
    /\ ~SameTile(1, 3)

\* the container failed to read during the current request
ReadFailed == \E k \in 1..Len(fetchLog) : fetchLog[k].outcome = "ioerror"

\* C4: a request during which the container failed to read is answered with
\* a server error, never with 404, 204, 200 or a null elevation.
C4_ReadFailureIsServerError ==
    (Answered /\ ReadFailed) => res.status >= 500

\* the item the current tile request names, and the checks of the route
\* written out on the request
ReqItem == Lookup(req.id)
ReqNative == ReqItem.tileJSON.format
ReqParsed == req.z # NaN /\ req.x # NaN /\ req.y # NaN
ReqInBounds ==
    /\ ReqParsed
    /\ ReqItem.tileJSON.minzoom <= req.z /\ req.z <= ReqItem.tileJSON.maxzoom
    /\ 0 <= req.x /\ req.x < Pow2(req.z)
    /\ 0 <= req.y /\ req.y < Pow2(req.z)
FormatAccepted(f) == f = ReqNative \/ (f = "geojson" /\ ReqNative = "pbf")
ReqFormat == IF req.format = options.pbfAlias THEN "pbf" ELSE req.format
Rejected(body) == Answered /\ res.status = 404 /\ res.body = body /\ fetchLog = <<>>
Fetching == pc = "fetch" \/ Len(fetchLog) = 1

\* C5 as written: source, then format equal to the native format or geojson
\* on pbf, then bounds; the first check that fails decides the response.
C5_ThreeChecksInOrder ==
    (IsTile /\ pc # "idle") =>
        IF ~ReqItem.registered THEN Rejected("Not Found")
        ELSE IF ~FormatAccepted(req.format) THEN Rejected("Invalid format")
        ELSE IF ~ReqInBounds THEN Rejected("Out of bounds")
        ELSE Fetching

\* C5, amended: source, then z, x and y parse as numbers, then the format with
\* options.pbfAlias read as pbf equals the native format or is geojson on
\* pbf, then bounds; the first check that fails alone decides the response
\* and the container is read only when all four pass.
C5_ValidationOrder ==
    (IsTile /\ pc # "idle") =>
        IF ~ReqItem.registered THEN Rejected("Not Found")
        ELSE IF ~ReqParsed THEN Rejected("Invalid Tile")
        ELSE IF ~FormatAccepted(ReqFormat) THEN Rejected("Invalid format")
        ELSE IF ~ReqInBounds THEN Rejected("Out of bounds")
        ELSE Fetching

\* a raster source asked for geojson at an address out of bounds: the format
\* decides
C5_Witness ==
    /\ IsTile /\ Answered
    /\ ReqItem.registered /\ ReqNative = "png" /\ req.format = "geojson"
    /\ ReqParsed /\ ~ReqInBounds
    /\ res.body = "Invalid format"

\* a request of the tile route that names a registered source, parses, and
\* asks for a format the source serves
WellFormed == IsTile /\ pc # "idle" /\ ReqItem.registered /\ ReqParsed /\ FormatAccepted(ReqFormat)

\* C6: z = minzoom or z = maxzoom with 0 <= x, y < 2^z passes the bounds
\* check; z = minzoom - 1, z = maxzoom + 1, x = 2^z or y = 2^z is answered 404
\* 'Out of bounds' without a read of the container.
C6_BoundsAreInclusive ==
    WellFormed =>
        LET lo == ReqItem.tileJSON.minzoom
            hi == ReqItem.tileJSON.maxzoom
        IN  /\ (/\ req.z \in {lo, hi}
                /\ req.x \in 0..(Pow2(req.z) - 1)
                /\ req.y \in 0..(Pow2(req.z) - 1)) => Fetching
            /\ (\/ req.z = lo - 1
                \/ req.z = hi + 1
                \/ req.x = Pow2(req.z)
                \/ req.y = Pow2(req.z)) => Rejected("Out of bounds")

\* the last tile of the deepest zoom was fetched and answered
C6_Witness ==
    /\ WellFormed /\ Answered
    /\ req.z = ReqItem.tileJSON.maxzoom /\ req.z > ReqItem.tileJSON.minzoom
    /\ req.x = 0 /\ req.y = Pow2(req.z) - 1
    /\ res.status = 200

\* the container was read for the current tile request and has no such tile
TileAbsent == IsTile /\ Answered /\ Len(fetchLog) = 1 /\ fetchLog[1].outcome = "missing"

\* C7: an absent tile is answered 404 (not found) by a sparse source and 204
\* (empty) by any other, with an empty body and never with a 200 payload.
C7_AbsentTileByPolicy ==
    TileAbsent =>
        /\ ReqItem.sparse => res.status = 404
        /\ ~ReqItem.sparse => res.status = 204
        /\ res.body = "" /\ res.payload = NoPayload

\* a vector source made sparse by its own option answers 404
C7_Witness ==
    /\ TileAbsent
    /\ ReqNative = "pbf" /\ data[req.id].sparse = "true"
    /\ res.status = 404

\* the format add stores: the decorator's, else the configured override's,
\* else the container's, else pbf
FinalFormat(id) ==
    IF options.dataDecoratorFunc = "toPng" THEN "png"
    ELSE IF data[id].tilejson.format # Undef THEN data[id].tilejson.format
    ELSE IF files[id].info.format # Undef THEN files[id].info.format
    ELSE "pbf"

C9_SparseAnswersGone ==
    TileAbsent => res.status = (IF ReqItem.sparse THEN 410 ELSE 204)

\* the current request is a GET elevation request on a source that passed
\* validateElevationSource
ElevationQuery ==
    IsGet /\ pc # "idle" /\ ReqItem.registered /\ ElevationSourceError(ReqItem).status = 0
InZoomRange(z) == z # NaN /\ ReqInfo.minzoom <= z /\ z <= ReqInfo.maxzoom
TileAddressOk ==
    /\ InZoomRange(req.z)
    /\ 0 <= ParseInt(req.x) /\ ParseInt(req.x) < Pow2(req.z)
    /\ 0 <= ParseInt(req.y) /\ ParseInt(req.y) < Pow2(req.z)
NearestZoom(z) ==
    IF z < ReqInfo.minzoom THEN ReqInfo.minzoom
    ELSE IF z > ReqInfo.maxzoom THEN ReqInfo.maxzoom ELSE z

\* C10: in coordinate mode a zoom outside the range is never rejected, the
\* fetch is made at the nearest bound and a 200 reports that zoom; in
\* tile-coordinate mode a request whose z is not within the range or whose x
\* or y is not within [0, 2^z) is answered 404 'Out of bounds' and nothing is
\* fetched.
C10_ClampOrReject ==
    ElevationQuery =>
        /\ (~TileMode(req) /\ req.z # NaN /\ ~InZoomRange(req.z)) =>
               /\ ~(Answered /\ res.status = 404)
               /\ \A k \in 1..Len(fetchLog) : fetchLog[k].z = NearestZoom(req.z)
               /\ (Answered /\ res.status = 200) => res.json.z = NearestZoom(req.z)
        /\ (TileMode(req) /\ ~TileAddressOk) => Rejected("Out of bounds")

\* the current request is a GET elevation request in tile-coordinate mode that
\* passed the bounds check and entered getBatchElevations
TileModeQuery == ElevationQuery /\ TileMode(req) /\ TileAddressOk /\ Len(groups) = 1
\* the tile of the request is the tile that is read and reported
SameTileRead ==
    /\ groups[1].zoom = req.z
    /\ groups[1].tileX = ParseInt(req.x)
    /\ groups[1].tileY = ParseInt(req.y)
    /\ \A k \in 1..Len(fetchLog) : LogKey(k) = <<req.z, ParseInt(req.x), ParseInt(req.y)>>
    /\ (Answered /\ res.status = 200) =>
           /\ res.json.z = req.z
           /\ res.json.x = ParseInt(req.x)
           /\ res.json.y = ParseInt(req.y)
\* the pixel read is the middle of the tile
CentrePixelRead ==
    /\ groups[1].pixels[1].pixelX = ReqInfo.tileSize \div 2
    /\ groups[1].pixels[1].pixelY = ReqInfo.tileSize \div 2

\* C11: a tile-coordinate-mode request that passes the bounds check reads
\* the tile (z, x, y) it names, a 200 echoes z, x and y, and the pixel read is
\* the tile's centre pixel.
C11_TileModeReadsCentre ==
    TileModeQuery => (SameTileRead /\ CentrePixelRead)

\* the current request is an elevation request, GET or POST
IsElevation == (IsGet \/ IsBatch) /\ pc # "idle"
\* the source it names is a terrain source: registered, encoding mapbox or
\* terrarium, format png or webp, both zoom bounds declared
TerrainSource ==
    /\ ReqItem.registered
    /\ ReqItem.tileJSON.encoding \in {"mapbox", "terrarium"}
    /\ ReqItem.tileJSON.format \in {"png", "webp"}
    /\ ReqItem.tileJSON.minzoom # UndefNum /\ ReqItem.tileJSON.maxzoom # UndefNum
\* the request carries input that is no finite number, or no points
MalformedBatch ==
    /\ IsBatch
    /\ \/ ~req.isArray
       \/ Len(req.points) = 0
       \/ \E i \in 1..Len(req.points) :
              \/ req.points[i] = NullPoint
              \/ req.points[i].lon = NaN \/ req.points[i].lat = NaN \/ req.points[i].z = NaN
MalformedGet ==
    /\ IsGet
    /\ req.z = NaN \/ ParseFloat(req.x) = NaN \/ ParseFloat(req.y) = NaN
ClientError == Answered /\ res.status = 400 /\ fetchLog = <<>>

\* C12: a malformed elevation request on a terrain source, batch or single
\* point, is answered 400 and nothing is fetched.
C12_MalformedIsClientError ==
    (IsElevation /\ TerrainSource /\ (MalformedBatch \/ MalformedGet)) => ClientError

\* C13: an elevation request, GET or POST, whatever its coordinates or body,
\* is answered 404 when the source is unknown, 400 'Missing
\* tileJSON.encoding' when the source has no encoding, and 400 when the
\* encoding is not mapbox or terrarium, the format is not png or webp or a
\* zoom bound is missing; nothing is fetched.
C13_SourceValidatedFirst ==
    IsElevation =>
        IF ~ReqItem.registered
        THEN Answered /\ res.status = 404 /\ fetchLog = <<>>
        ELSE IF ReqItem.tileJSON.encoding = Undef
        THEN ClientError /\ res.body = "Missing tileJSON.encoding"
        ELSE ~TerrainSource => ClientError

\* a batch without a points array, sent to a vector source that declares an
\* encoding, is answered with the format error
C13_Witness ==
    /\ IsBatch /\ Answered
    /\ ~req.isArray
    /\ ReqItem.registered /\ ReqItem.tileJSON.encoding = "mapbox"
    /\ ReqItem.tileJSON.format = "pbf"
    /\ res.status = 400 /\ res.body = "Invalid format. Must be webp or png."

\* what the GET handler did with the current request: it took x and y for a
\* tile address (checked it against the grid, queried the tile's midpoint) or
\* for a longitude and a latitude
HandledAsTile ==
    \/ Rejected("Out of bounds")
    \/ /\ Len(req.points) = 1
       /\ req.points[1].lon = TileMidpoint(ParseInt(req.x), ParseInt(req.y), req.z).lon
       /\ req.points[1].lat = TileMidpoint(ParseInt(req.x), ParseInt(req.y), req.z).lat
HandledAsLonLat ==
    /\ Len(req.points) = 1
    /\ req.points[1].lon = ParseFloat(req.x)
    /\ req.points[1].lat = ParseFloat(req.y)
\* the value of a segment is a whole number
WholeNumber(seg) == ParseFloat(seg) # NaN /\ ParseFloat(seg) % 1000 = 0

\* C14 as written: x and y both written as integers are handled as a tile
\* address; any other spelling, 0.0 included, as longitude and latitude.
C14_ModeByFormatting ==
    ElevationQuery =>
        IF IntegerLiteral(req.x) /\ IntegerLiteral(req.y) THEN HandledAsTile ELSE HandledAsLonLat

\* C14, amended: x and y whose values are both whole numbers, however
\* written (0 and 0.0 alike), are handled as a tile address; a request with an
\* x or y that is no whole number as longitude and latitude.
C14_ModeByValue ==
    ElevationQuery =>
        IF WholeNumber(req.x) /\ WholeNumber(req.y) THEN HandledAsTile ELSE HandledAsLonLat

\* /1/0.0/0.0 is answered for tile 1/0/0, whose midpoint is not lon 0, lat 0
C14_Witness ==
    /\ ElevationQuery /\ Answered /\ res.status = 200
    /\ req.z = 1 /\ req.x = "0.0" /\ req.y = "0.0"
    /\ res.json.long = -90000 /\ res.json.x = 0 /\ res.json.y = 0

\* the tile side the source declares
DeclaredTileSize == ReqItem.tileJSON.tileSize

\* C15: the pixel offsets of a queried point are those of a tile whose side is
\* the source's declared tileSize, and 256 when it declares none.
C15_TileSizeDefault256 ==
    (ElevationQuery /\ Len(groups) = 1 /\ req.points[1].lon # NaN /\ req.z # NaN) =>
        LET size == IF DeclaredTileSize = UndefNum THEN 256 ELSE DeclaredTileSize
            at == LonLatToTilePixel(req.points[1].lon, req.points[1].lat,
                                    groups[1].zoom, size)
        IN  /\ groups[1].pixels[1].pixelX = at.pixelX
            /\ groups[1].pixels[1].pixelY = at.pixelY

\* a pixel was encoded from req.elevation and decoded into results[1]
Decoded == pc = "decoded"

\* C16 as written: decoding the pixel an elevation was encoded into returns
\* exactly that elevation.
C16_DecodeInvertsEncode ==
    Decoded => (results[1].dm = req.elevation /\ IsDecimal(results[1]))

\* C16, amended: the bytes are in 0..255 and stand for the elevation's
\* decimetres; the decoded double is exactly the elevation when the elevation
\* is a whole multiple of half a metre, and is off by less than one unit in the
\* last place of the product, at most 2^-32 m, otherwise.
C16_DecodeWithinRounding ==
    Decoded =>
        /\ \A c \in 1..3 : res.rgb[c] \in 0..255
        /\ results[1].dm = req.elevation
        /\ (req.elevation % 5 = 0) => (results[1].err = 0 /\ IsDecimal(results[1]))
        /\ results[1].err \in -9..9
        /\ results[1].exp <= 20

\* the 100 m of the fixture's zoom 0 tile is decoded exactly, from a pixel
\* with three different bytes
C16_Witness ==
    /\ Decoded
    /\ req.elevation = 1000
    /\ res.rgb = <<1, 138, 136>>
    /\ results[1].dm = 1000 /\ results[1].err = 0

\* C17: a source in the registry that declares a terrain encoding has encoding
\* mapbox or terrarium, format png or webp, and both zoom bounds.
C17_TerrainValidatedAtAdd ==
    \A id \in DataIds :
        (repo[id].registered /\ repo[id].tileJSON.encoding # Undef) =>
            /\ repo[id].tileJSON.encoding \in {"mapbox", "terrarium"}
            /\ repo[id].tileJSON.format \in {"png", "webp"}
            /\ repo[id].tileJSON.minzoom # UndefNum
            /\ repo[id].tileJSON.maxzoom # UndefNum

\* the current tile request was answered with a tile
TileServed == IsTile /\ Answered /\ res.status = 200
\* the tile the container stores at the request's address
ReqFile == files[ReqItem.source]
\* the hook is configured and the source is a vector source
Decorating == options.dataDecoratorFunc # Undef /\ ReqNative = "pbf"

\* C18: a 200 tile response has Content-Encoding: gzip and a body that is
\* the final payload (of the request's tile, transcoded when geojson was
\* asked for, decorated when the hook applies) under exactly one gzip framing,
\* whether the stored tile was gzip-compressed or raw.
C18_CompressedOnce ==
    TileServed =>
        /\ <<"Content-Encoding", "gzip">> \in res.headers
        /\ res.payload.gzip = 1
        /\ res.payload.addr = <<req.z, req.x, req.y>>
        /\ res.payload.content = (IF ReqFormat = "geojson" THEN "geojson" ELSE ReqNative)
        /\ res.payload.by = (IF Decorating THEN "hook" ELSE "container")

\* a tile stored gzip-compressed and decorated by the hook is sent under one
\* framing
C18_Witness ==
    /\ TileServed
    /\ ReqFile.gz /\ Decorating
    /\ res.payload.gzip = 1 /\ res.payload.by = "hook"

\* C19: for a served tile of a vector source with a hook configured the hook
\* was called once, with the request's id, z, x, y and bytes without gzip
\* framing, and the payload is what it returned, compressed afterwards; for a
\* raster source or without a hook it was not called; the vector-tile parser
\* was given bytes without gzip framing; a response that is no tile called
\* neither.
C19_HookOncePerVectorTile ==
    (IsTile /\ Answered) =>
        IF TileServed
        THEN /\ res.payload.calls =
                    (IF Decorating
                     THEN <<[id |-> req.id, kind |-> "data", z |-> req.z, x |-> req.x,
                             y |-> req.y, gzip |-> 0]>>
                     ELSE <<>>)
             /\ Decorating => (res.payload.by = "hook" /\ res.payload.gzip = 1)
             /\ \A k \in 1..Len(res.payload.parsed) : res.payload.parsed[k] = 0
             /\ Len(res.payload.parsed) = (IF ReqFormat = "geojson" THEN 1 ELSE 0)
        ELSE res.payload = NoPayload

\* a vector tile stored gzip-compressed, asked for as geojson with a hook
\* configured: hook and parser both ran, on decompressed bytes
C19_Witness ==
    /\ TileServed
    /\ ReqFile.gz /\ Decorating /\ ReqFormat = "geojson"
    /\ Len(res.payload.calls) = 1 /\ res.payload.calls[1].gzip = 0
    /\ res.payload.parsed = <<0>>

\* C20: the headers of a 200 tile response hold no ETag, whether or not the
\* container returned one with the tile.
C20_NoContainerETag ==
    TileServed => \A h \in res.headers : h[1] # "ETag"

\* the container returned an ETag with the tile that was served
C20_Witness ==
    /\ TileServed
    /\ ReqFile.etag
    /\ <<"ETag", "container">> \in StoredTile(ReqItem, ReqFile, req.z, req.x, req.y).headers
    /\ \A h \in res.headers : h[1] # "ETag"

\* the features of a collection that carry the layer property name
Regroup(features, name) == {k \in 1..Len(features) : features[k].layer = name}
\* a tile was converted
Converted == req.kind = "geojson" /\ pc = "done"
RECURSIVE SumLengths(_, _)
SumLengths(layers, k) ==
    IF k > Len(LayerNames) THEN 0 ELSE Len(layers[LayerNames[k]]) + SumLengths(layers, k + 1)

\* C21: the FeatureCollection of a tile holds one feature per (layer, feature
\* index), tagged with its layer's name: grouping the features by their layer
\* property gives each layer's length, and the total is the sum of the
\* lengths.
C21_OneFeaturePerLayerIndex ==
    Converted =>
        /\ \A n \in 1..Len(LayerNames) :
               LET name == LayerNames[n]
               IN  /\ Cardinality(Regroup(res.features, name)) = Len(req.layers[name])
                   /\ \A i \in 0..(Len(req.layers[name]) - 1) :
                          Cardinality({k \in Regroup(res.features, name) :
                                          /\ res.features[k].source = name
                                          /\ res.features[k].index = i}) = 1
        /\ Len(res.features) = SumLengths(req.layers, 1)

\* a tile whose roads layer has a feature that came with a layer property
\* naming another layer
C21_Witness ==
    /\ Converted
    /\ Len(req.layers["roads"]) = MaxFeatures
    /\ req.layers["roads"][1] = "water"
    /\ Len(req.layers["water"]) = 1
    /\ Cardinality(Regroup(res.features, "roads")) = MaxFeatures

\* the generations of the process
Generations == 1..Len(server.gens)

\* C22: a rendered registry is torn down only when the server of its
\* generation has completed its shutdown, no request of the generation is in
\* flight and a newer generation has been started; a generation is started by
\* a reload only after the shutdown of the server it replaces has completed;
\* no request is in flight on a generation whose registry was torn down.
C22_ReleasedAfterDrain ==
    /\ \A g \in Generations :
           server.gens[g].rendered = "cleared" =>
               /\ server.gens[g].listen = "closed"
               /\ server.gens[g].inflight = 0
               /\ g < Len(server.gens)
    /\ \A k \in 1..Len(server.cbs) :
           server.cbs[k].stage \in {"tick", "started"} =>
               /\ server.gens[server.cbs[k].server].listen = "closed"
               /\ server.gens[server.cbs[k].server].inflight = 0

\* a reload whose SIGHUP came while a request was in flight has finished: the
\* old registry is torn down and the new generation serves a request
C22_Witness ==
    /\ server.alive
    /\ server.gens[1].waited
    /\ server.gens[1].rendered = "cleared"
    /\ server.running.serving = 2
    /\ server.gens[2].inflight > 0

\* C28: the process keeps running, and when no reload is pending exactly one
\* generation is listening, the one running refers to.
C28_OneGenerationAfterSighups ==
    /\ server.alive
    /\ server.cbs = <<>> =>
           \A g \in Generations :
               server.gens[g].listen \in {"pending", "listening"} <=> g = server.running.server

\* C23: a step taken while a source is registered leaves its registry entry
\* as it is, whatever request is handled or answered in the step; the stored
\* tilejson never holds the tiles urls of a request.
C23_RequestsLeaveRegistry ==
    [][\A id \in DataIds :
          repo[id].registered =>
              /\ repo'[id] = repo[id]
              /\ "tiles" \notin DOMAIN repo'[id].tileJSON]_vars

\* a TileJSON request with a key was answered with urls on its host while the
\* stored tilejson holds none
C23_Witness ==
    /\ req.kind = "tilejson" /\ pc = "done"
    /\ res.status = 200
    /\ req.key # Undef
    /\ res.json.tiles[1].host = req.host
    /\ res.json.tiles[1].query = req.key
    /\ "tiles" \notin DOMAIN repo[req.id].tileJSON

\* C24: a tile request that has passed validation and waits for
\* fetchTileData is answered in the end, whatever the container does.
C24_FetchAlwaysSettles == (pc = "fetch" /\ req.kind = "tile") ~> (pc = "done" /\ res # NoRes)

\* C25: every address an elevation query hands to fetchTileData is a tile
\* address of the source: z is a number within [minzoom, maxzoom] and x and y
\* are numbers within [0, 2^z).
C25_FetchedAddressesValid ==
    ElevationQuery =>
        \A k \in 1..Len(fetchLog) :
            /\ IsNum(fetchLog[k].z) /\ IsNum(fetchLog[k].x) /\ IsNum(fetchLog[k].y)
            /\ InZoomRange(fetchLog[k].z)
            /\ 0 <= fetchLog[k].x /\ fetchLog[k].x < Pow2(fetchLog[k].z)
            /\ 0 <= fetchLog[k].y /\ fetchLog[k].y < Pow2(fetchLog[k].z)

\* C26: /health never answers 503 after it has answered 200, and it answers
\* 200 only when startup is complete: every data source is registered, the
\* fonts are listed, addStyle has returned for every configured style and
\* serve_rendered.add of every style that was added has settled.
C26_HealthyMeansStarted ==
    /\ server.wasOk => server.health = 200
    /\ server.health = 200 =>
           /\ server.startupComplete
           /\ server.dataLoadStarted
           /\ \A id \in DOMAIN server.data :
                  id \in DOMAIN server.loads /\ server.loads[id] = "registered"
           /\ "fonts" \in server.settled
           /\ \A s \in StyleIds :
                  /\ server.styles[s] # "reading"
                  /\ server.styles[s] = "added" => RenderedPromise(s) \in server.settled

\* C27: serve_data.add is called for no data source before addStyle has
\* returned for every configured style, and it is then called for every data
\* source a style reported, those under generated ids included.
C27_DataAfterStyles ==
    /\ ~server.dataLoadStarted => DOMAIN server.loads = {}
    /\ server.dataLoadStarted =>
           /\ \A s \in StyleIds : server.styles[s] # "reading"
           /\ server.reported \subseteq DOMAIN server.loads
           /\ DOMAIN server.data = DOMAIN server.loads

\* the data sources are being loaded, among them two that styles reported for
\* files the data section does not list
C27_Witness ==
    /\ server.dataLoadStarted
    /\ {"extra", "terrain_"} \subseteq server.reported
    /\ {"extra", "terrain_"} \subseteq DOMAIN server.loads

\* C29: when the watcher has handled every event and no addStyle is pending,
\* the style is served if and only if the last event was an add or change
\* whose addStyle loaded the style.
C29_ServedFollowsLastEvent ==
    (server.events = <<>> /\ server.reads = <<>> /\ server.lastEvent # "none") =>
        (server.served <=> (server.lastEvent \in {"add", "change"} /\ server.lastLoaded = "ok"))

\* the fallback the documentation of the chain names for a failed font
PreferredFallback(name, remaining) ==
    LET style == IF name.style \in {"Regular", "Bold", "Italic"} THEN name.style ELSE "Regular"
    IN  IF Has(remaining, [family |-> "Noto Sans", style |-> style])
        THEN [family |-> "Noto Sans", style |-> style]
        ELSE IF Has(remaining, [family |-> "Open Sans", style |-> style])
        THEN [family |-> "Open Sans", style |-> style]
        ELSE remaining[1]

\* the chain of fonts tried so far
FontChainOk ==
    server.outcome # "Font not allowed" =>
        /\ \A j, k \in 1..Len(server.tried) : j # k => server.tried[j].name # server.tried[k].name
        /\ Len(server.tried) <= 1 + Cardinality(server.allowed \ {server.asked})
        /\ \A k \in 1..Len(server.tried) :
               /\ ~Has(server.tried[k].fallbacks, server.tried[k].name)
               /\ k > 1 =>
                      /\ server.tried[k].name =
                             PreferredFallback(server.tried[k - 1].name, server.tried[k - 1].fallbacks)
                      /\ ~Has(server.tried[k].fallbacks, server.tried[k - 1].name)
                      /\ Len(server.tried[k].fallbacks) = Len(server.tried[k - 1].fallbacks) - 1
        /\ server.outcome = "resolved" =>
               server.tried[Len(server.tried)].name \in server.readable
        /\ server.outcome = "Font load error" =>
               /\ server.tried[Len(server.tried)].fallbacks = <<>>
               /\ \A k \in 1..Len(server.tried) : server.tried[k].name \notin server.readable

\* C30: a call of getFontPbf ends resolved or rejected; no font is tried
\* twice and at most one font per fallback is tried; each step removes the
\* failed font and the fallback from the remaining fallbacks; the fallback is
\* Noto Sans of the style if it remains, else Open Sans of the style, else
\* the first remaining font; without a remaining fallback the call rejects
\* with 'Font load error'.
C30_FontChainTerminates ==
    /\ []FontChainOk
    /\ <>(server.outcome \in {"resolved", "Font load error", "Font not allowed"})

\* an unreadable font fell back to Noto Sans of its style, then to Open Sans
\* of the style, then to the first remaining font, until no fallback was left
C30_Witness ==
    /\ server.outcome = "Font load error"
    /\ Len(server.tried) = Len(Fonts)
    /\ server.tried[1].name.family = "Zed"
    /\ server.tried[2].name = [family |-> "Noto Sans", style |-> "Regular"]
    /\ server.tried[3].name = [family |-> "Open Sans", style |-> "Regular"]
    /\ server.tried[4].name = server.tried[3].fallbacks[1]

====
